---- MODULE Spec2Model ----
(***************************************************************************)
(* llmock: a mock of the OpenAI chat-completions and responses endpoints.  *)
(*                                                                         *)
(* A text (Python str) is a tuple of one-character strings, so that        *)
(* len(), split(" "), " ".join() and f-string concatenation are computed   *)
(* character by character.  Identifiers that the code only compares or     *)
(* copies (model ids, roles, event kinds) are TLA+ strings.                *)
(***************************************************************************)
EXTENDS Integers, Sequences, FiniteSets, TLC

(***************************************************************************)
(* Bounds of the model.                                                    *)
(***************************************************************************)
\* longest plain-string `input` of a unified request
MaxTextLen == 3
\* most messages in a chat request
MaxMessages == 2
\* most items in the list `input` of a unified request
MaxItems == 2
\* most entries of the configured models list of the models endpoints
MaxModels == 2

(***************************************************************************)
(* Python values.                                                          *)
(***************************************************************************)
\* None in a slot typed `str | None`: a tuple that is no text
None == <<"None">>
\* null in a slot that otherwise holds an identifier (role, finish_reason)
Null == "null"

Max(a, b) == IF a >= b THEN a ELSE b

\* str.split(sep) with an explicit one-character separator
RECURSIVE split(_, _)
split(text, sep) ==
    IF \A k \in 1..Len(text) : text[k] # sep
    THEN <<text>>
    ELSE LET k == CHOOSE j \in 1..Len(text) :
                      text[j] = sep /\ \A h \in 1..(j - 1) : text[h] # sep
         IN  <<SubSeq(text, 1, k - 1)>> \o split(SubSeq(text, k + 1, Len(text)), sep)

\* sep.join(texts)
RECURSIVE join(_, _)
join(sep, texts) ==
    IF texts = <<>> THEN <<>>
    ELSE IF Len(texts) = 1 THEN texts[1]
    ELSE texts[1] \o sep \o join(sep, Tail(texts))

\* sequences over S of length at most n
SeqsUpTo(S, n) == UNION {[1..k -> S] : k \in 0..n}

(***************************************************************************)
(* Request inputs.                                                         *)
(***************************************************************************)
Chars == {"a", "b", " "}
SP == <<" ">>

\* every text of at most MaxTextLen characters
Texts == SeqsUpTo(Chars, MaxTextLen)

\* schemas/chat.py: ChatMessageRequest(role, content: str | None)
ChatRoles == {"user", "assistant"}
ChatContents ==
    {None, <<>>, <<"a">>, <<" ", "a", " ">>, <<"b", " ", " ", "a">>,
     <<"a", "b", "a", "b", "a", "b", "a">>}
ChatMessageRequest == [role : ChatRoles, content : ChatContents]

ModelIds == {"gpt-4", "other-model"}

\* schemas/chat.py: ChatCompletionRequest
ChatCompletionRequest ==
    [api : {"chat"}, model : ModelIds,
     messages : SeqsUpTo(ChatMessageRequest, MaxMessages), stream : BOOLEAN]

\* schemas/responses.py: the typed parts of a structured content list
InputTextContent(text) == [class |-> "InputTextContent", text |-> text]
InputImageContent == [class |-> "InputImageContent", image_url |-> "http://img"]

\* a value typed `str | list[...]`, tagged with the type isinstance() sees
Str(text) == [type |-> "str", value |-> text]
List(elems) == [type |-> "list", value |-> elems]

\* schemas/responses.py: SimpleInputMessage(role, content: str)
SimpleInputMessage(role, content) ==
    [class |-> "SimpleInputMessage", role |-> role, content |-> Str(content)]
\* schemas/responses.py: InputMessage(role, content: str | list[part])
InputMessage(role, content) ==
    [class |-> "InputMessage", role |-> role, content |-> content]

\* the items a list input is built from
InputItems ==
    {SimpleInputMessage("user", <<"a">>),
     SimpleInputMessage("user", <<>>),
     SimpleInputMessage("assistant", <<"b">>),
     InputMessage("user", Str(<<"b", " ", "a">>)),
     InputMessage("user", Str(<<>>)),
     InputMessage("user", List(<<InputImageContent>>)),
     InputMessage("user", List(<<InputImageContent, InputTextContent(<<"a", " ", "b">>),
                                 InputTextContent(<<"b">>)>>)),
     InputMessage("user", List(<<InputTextContent(<<>>)>>)),
     InputMessage("assistant", List(<<InputTextContent(<<"a">>)>>))}

Instructions == {None, <<>>, <<"b">>}

\* schemas/responses.py: ResponseCreateRequest
ResponseCreateRequest ==
    [api : {"responses"}, model : ModelIds,
     input : {Str(t) : t \in Texts} \cup {List(l) : l \in SeqsUpTo(InputItems, MaxItems)},
     instructions : Instructions, stream : BOOLEAN]

\* a configured model entry of config.yaml
ModelEntry(id) == [id |-> id, created |-> 0, owned_by |-> "openai"]

\* the Config dicts the application is started with: no "models" key,
\* an empty list, a non-empty list
Configs ==
    {[cors |-> <<>>],
     [models |-> <<>>],
     [models |-> <<ModelEntry("gpt-4o"), ModelEntry("gpt-4")>>]}

VARIABLES
    config,            \* the Config dict returned by get_config()
    environ,           \* os.environ: the variables set in the process environment
    downstream,        \* per request: how often the middleware awaited call_next
    setter,            \* per router: the set_strategy call in progress, if any
    chat_strategy,     \* routers/chat.py: _default_strategy
    resp_strategy,     \* routers/responses.py: _default_strategy
    pc,                \* per request: where its handling stands
    request,           \* per request: the request body as posted
    strategy,          \* per request: the strategy Depends(get_strategy) resolved
    response_content,  \* per request: the reply text the strategy returned
    i,                 \* per request: index of the streaming loop
    ids,               \* per request: the identifiers and timestamp its generator drew
    sent,              \* per request: the SSE blocks yielded so far
    http               \* per request: the HTTP response handed to the transport

vars ==
    <<config, environ, downstream, setter, chat_strategy, resp_strategy, pc, request, strategy,
      response_content, i, ids, sent, http>>


(***************************************************************************)
(* strategies/content_mirror.py                                            *)
(***************************************************************************)
\* truthiness of a `str | None` value: None and "" are falsy
Truthy(text) == text # None /\ text # <<>>

NoUserMessage ==
    <<"N","o"," ","u","s","e","r"," ","m","e","s","s","a","g","e"," ",
      "p","r","o","v","i","d","e","d",".">>

\* the loop `for message in reversed(request.messages)`, at position k
RECURSIVE chat_mirror_scan(_, _)
chat_mirror_scan(messages, k) ==
    IF k = 0 THEN NoUserMessage
    ELSE IF messages[k].role = "user" /\ Truthy(messages[k].content)
         THEN messages[k].content
         ELSE chat_mirror_scan(messages, k - 1)

\* mutant of ChatMirrorStrategy_generate_response: the messages are scanned
\* from the first instead of from the last
RECURSIVE chat_mirror_scan_forward(_, _)
chat_mirror_scan_forward(messages, k) ==
    IF k > Len(messages) THEN NoUserMessage
    ELSE IF messages[k].role = "user" /\ Truthy(messages[k].content)
         THEN messages[k].content
         ELSE chat_mirror_scan_forward(messages, k + 1)

ChatMirrorStrategy_first_user(req) == chat_mirror_scan_forward(req.messages, 1)

ChatMirrorStrategy_generate_response(req) ==
    chat_mirror_scan(req.messages, Len(req.messages))

NoUserInput ==
    <<"N","o"," ","u","s","e","r"," ","i","n","p","u","t"," ",
      "p","r","o","v","i","d","e","d",".">>

\* the loop `for content_item in item.content`, from part k on: the text of
\* the first InputTextContent, or NotFound when the loop ends without return
NotFound == <<"NotFound">>
\* mutant of first_input_text: a later InputTextContent replaces an earlier
RECURSIVE first_input_text_last(_, _)
first_input_text_last(parts, k) ==
    IF k > Len(parts) THEN NotFound
    ELSE IF first_input_text_last(parts, k + 1) # NotFound
         THEN first_input_text_last(parts, k + 1)
    ELSE IF parts[k].class = "InputTextContent" THEN parts[k].text
    ELSE NotFound

RECURSIVE first_input_text(_, _)
first_input_text(parts, k) ==
    IF k > Len(parts) THEN NotFound
    ELSE IF parts[k].class = "InputTextContent" THEN parts[k].text
    ELSE first_input_text(parts, k + 1)

\* the loop `for item in reversed(request.input)`, at position k
RECURSIVE response_mirror_scan(_, _)
response_mirror_scan(items, k) ==
    IF k = 0 THEN NoUserInput
    ELSE LET item == items[k]
         IN  IF item.class = "SimpleInputMessage"
             THEN IF item.role = "user" THEN item.content.value
                  ELSE response_mirror_scan(items, k - 1)
             ELSE IF item.role = "user"
                  THEN IF item.content.type = "str" THEN item.content.value
                       ELSE IF first_input_text(item.content.value, 1) # NotFound
                            THEN first_input_text(item.content.value, 1)
                            ELSE response_mirror_scan(items, k - 1)
                  ELSE response_mirror_scan(items, k - 1)

ResponseMirrorStrategy_generate_response(req) ==
    IF req.input.type = "str" THEN req.input.value
    ELSE response_mirror_scan(req.input.value, Len(req.input.value))

\* the strategy objects a router can hold: the instance built at import and
\* a second instance of the same class, as a caller of set_strategy builds it
ChatStrategies == {"ChatMirrorStrategy", "ChatMirrorStrategy_2"}
ResponseStrategies == {"ResponseMirrorStrategy", "ResponseMirrorStrategy_2"}

\* strategy objects of another class that satisfies the Protocol of
\* strategies/base.py, as a test installs them: generate_response returns
\* the same text for every request
FixedStrategies == {"ChatFixedStrategy", "ResponseFixedStrategy"}
FixedReply == <<"b">>

\* mutant of generate_response: the strategy answers the first request it
\* is called for and gives every later one the sentinel
generate_response_once(strat, req) ==
    IF \E t \in DOMAIN pc : response_content[t] # None
    THEN NoUserMessage
    ELSE IF strat \in FixedStrategies THEN FixedReply
    ELSE IF strat \in ChatStrategies
         THEN ChatMirrorStrategy_generate_response(req)
         ELSE ResponseMirrorStrategy_generate_response(req)

\* strategy.generate_response(request), dispatched on the strategy object
generate_response(strat, req) ==
    CASE strat \in FixedStrategies -> FixedReply
      [] strat \in ChatStrategies -> ChatMirrorStrategy_generate_response(req)
      [] strat \in ResponseStrategies -> ResponseMirrorStrategy_generate_response(req)

(***************************************************************************)
(* routers/chat.py                                                         *)
(***************************************************************************)
NoException == [raised |-> FALSE]

chat_get_models_config(cfg) ==
    IF "models" \in DOMAIN cfg THEN cfg.models ELSE <<>>

\* returns the HTTPException it raises, or NoException
chat_validate_model(model_id, cfg) ==
    LET models_config == chat_get_models_config(cfg)
        model_ids == [k \in 1..Len(models_config) |-> models_config[k].id]
    IN  IF model_ids # <<>> /\ ~(\E k \in 1..Len(model_ids) : model_ids[k] = model_id)
        THEN [raised |-> TRUE,
              status_code |-> 404,
              detail |-> [error |->
                  [message |-> <<"The model '", model_id, "' does not exist">>,
                   type |-> "invalid_request_error",
                   param |-> "model",
                   code |-> "model_not_found"]]]
        ELSE NoException

\* int(time.time()), as one call may return it
Times == {1, 2}

\* uuid.uuid4(): one of the values the generator can draw
UUIDs == {"u1", "u2"}

\* the bits of the first n hexadecimal digits of uuid.uuid4().hex that are
\* drawn at random: four per digit, less the version digit (the 13th, always
\* 4) and the two variant bits at the top of the 17th digit
uuid4_random_bits(n) ==
    4 * n - (IF n >= 13 THEN 4 ELSE 0) - (IF n >= 17 THEN 2 ELSE 0)

generate_completion_id(uuid) == [prefix |-> "chatcmpl-", hex |-> uuid, hexlen |-> 24]

\* mutant of chat_estimate_tokens: the lower bound of 1 is forgotten
chat_estimate_tokens_no_floor(text) == Len(text) \div 4

chat_estimate_tokens(text) == Max(1, Len(text) \div 4)

\* mutant of chat_prompt_parts: no `if msg.content`, every message counts
RECURSIVE chat_prompt_parts_all(_)
chat_prompt_parts_all(messages) ==
    IF messages = <<>> THEN <<>>
    ELSE <<IF Truthy(Head(messages).content) THEN Head(messages).content ELSE <<>>>>
         \o chat_prompt_parts_all(Tail(messages))

\* [msg.content or "" for msg in request.messages if msg.content]
RECURSIVE chat_prompt_parts(_)
chat_prompt_parts(messages) ==
    IF messages = <<>> THEN <<>>
    ELSE (IF Truthy(Head(messages).content)
          THEN <<IF Truthy(Head(messages).content) THEN Head(messages).content ELSE <<>>>>
          ELSE <<>>) \o chat_prompt_parts(Tail(messages))

\* CompletionUsage(prompt_tokens=..., completion_tokens=..., total_tokens=...)
CompletionUsage(prompt_tokens, completion_tokens) ==
    [prompt_tokens |-> prompt_tokens,
     completion_tokens |-> completion_tokens,
     total_tokens |-> prompt_tokens + completion_tokens]

create_non_streaming_response(req, content, uuid) ==
    LET completion_id == generate_completion_id(uuid)
        prompt_text == join(SP, chat_prompt_parts(req.messages))
        prompt_tokens == chat_estimate_tokens(prompt_text)
        completion_tokens == chat_estimate_tokens(content)
    IN  [id |-> completion_id,
         model |-> req.model,
         object |-> "chat.completion",
         choices |-> <<[index |-> 0,
                        message |-> [role |-> "assistant", content |-> content],
                        finish_reason |-> "stop"]>>,
         usage |-> CompletionUsage(prompt_tokens, completion_tokens)]

\* one `data: <json>` block carrying a ChatCompletionChunk
ChatCompletionChunk(id, created, model, role, content, finish_reason) ==
    [data |-> [id |-> id,
               created |-> created,
               model |-> model,
               object |-> "chat.completion.chunk",
               choices |-> <<[index |-> 0,
                              delta |-> [role |-> role, content |-> content],
                              finish_reason |-> finish_reason]>>]]

\* the literal `data: [DONE]` block
DoneMarker == [literal |-> "data: [DONE]"]

\* mutant of chat_words: the first word is dropped (words[1:])
chat_words_skip_first(content) == Tail(split(content, " "))

chat_words(content) == split(content, " ")

\* mutant of chat_delta: the space before the later words is forgotten
chat_delta_no_space(words, k) == words[k + 1]

\* content = word if i == 0 else f" {word}"   (i counts from 0)
chat_delta(words, k) == IF k = 0 THEN words[k + 1] ELSE SP \o words[k + 1]


(***************************************************************************)
(* routers/responses.py                                                    *)
(***************************************************************************)
responses_get_models_config(cfg) ==
    IF "models" \in DOMAIN cfg THEN cfg.models ELSE <<>>

\* mutant of responses_validate_model: an empty list no longer accepts every id
responses_validate_model_strict(model_id, cfg) ==
    LET models_config == responses_get_models_config(cfg)
        model_ids == [k \in 1..Len(models_config) |-> models_config[k].id]
    IN  IF ~(\E k \in 1..Len(model_ids) : model_ids[k] = model_id)
        THEN [raised |-> TRUE,
              status_code |-> 404,
              detail |-> [error |->
                  [message |-> <<"The model '", model_id, "' does not exist">>,
                   type |-> "invalid_request_error",
                   param |-> "model",
                   code |-> "model_not_found"]]]
        ELSE NoException

\* returns the HTTPException it raises, or NoException
responses_validate_model(model_id, cfg) ==
    LET models_config == responses_get_models_config(cfg)
        model_ids == [k \in 1..Len(models_config) |-> models_config[k].id]
    IN  IF model_ids # <<>> /\ ~(\E k \in 1..Len(model_ids) : model_ids[k] = model_id)
        THEN [raised |-> TRUE,
              status_code |-> 404,
              detail |-> [error |->
                  [message |-> <<"The model '", model_id, "' does not exist">>,
                   type |-> "invalid_request_error",
                   param |-> "model",
                   code |-> "model_not_found"]]]
        ELSE NoException

generate_response_id(uuid) == [prefix |-> "resp_", hex |-> uuid, hexlen |-> 32]
generate_message_id(uuid) == [prefix |-> "msg_", hex |-> uuid, hexlen |-> 32]

responses_estimate_tokens(text) == Max(1, Len(text) \div 4)

\* the texts of every InputTextContent of a content list, in order
RECURSIVE input_texts_of_parts(_)
input_texts_of_parts(parts) ==
    IF parts = <<>> THEN <<>>
    ELSE (IF Head(parts).class = "InputTextContent" THEN <<Head(parts).text>> ELSE <<>>)
         \o input_texts_of_parts(Tail(parts))

\* the list `texts` the loop over request.input builds
RECURSIVE input_texts(_)
input_texts(items) ==
    IF items = <<>> THEN <<>>
    ELSE LET item == Head(items)
         IN  (IF item.class = "SimpleInputMessage" THEN <<item.content.value>>
              ELSE IF item.content.type = "str" THEN <<item.content.value>>
              ELSE input_texts_of_parts(item.content.value))
             \o input_texts(Tail(items))

extract_input_text(req) ==
    IF req.input.type = "str" THEN req.input.value
    ELSE join(SP, input_texts(req.input.value))

\* input_text after `if request.instructions: input_text = f"{...} {...}"`
usage_input_text(req) ==
    IF Truthy(req.instructions)
    THEN req.instructions \o SP \o extract_input_text(req)
    ELSE extract_input_text(req)

\* mutant of OutputText: the part carries an annotation
OutputText_annotated(text) ==
    [type |-> "output_text", text |-> text, annotations |-> <<"url_citation">>]

OutputText(text) == [type |-> "output_text", text |-> text, annotations |-> <<>>]

\* ResponseUsage(input_tokens=..., output_tokens=..., total_tokens=...)
ResponseUsage(input_tokens, output_tokens) ==
    [input_tokens |-> input_tokens,
     input_tokens_details |-> [cached_tokens |-> 0],
     output_tokens |-> output_tokens,
     output_tokens_details |-> [reasoning_tokens |-> 0],
     total_tokens |-> input_tokens + output_tokens]

\* mutant of completed_usage: total_tokens leaves the input tokens out
completed_usage_output_only(input_tokens, output_tokens) ==
    [input_tokens |-> input_tokens,
     input_tokens_details |-> [cached_tokens |-> 0],
     output_tokens |-> output_tokens,
     output_tokens_details |-> [reasoning_tokens |-> 0],
     total_tokens |-> output_tokens]

\* the "usage" dict of the response.completed event
completed_usage(input_tokens, output_tokens) ==
    [input_tokens |-> input_tokens,
     input_tokens_details |-> [cached_tokens |-> 0],
     output_tokens |-> output_tokens,
     output_tokens_details |-> [reasoning_tokens |-> 0],
     total_tokens |-> input_tokens + output_tokens]

\* a value typed `dict[str, str] | None`, tagged with its type
NoneDict == [type |-> "NoneType", value |-> <<>>]
Dict(pairs) == [type |-> "dict", value |-> pairs]

\* schemas/responses.py: the defaults of the optional fields
FieldDefaults ==
    [instructions |-> None,
     max_output_tokens |-> Null,
     metadata |-> NoneDict,
     parallel_tool_calls |-> TRUE,
     previous_response_id |-> Null,
     store |-> TRUE,
     stream |-> FALSE,
     temperature |-> "1.0",
     top_p |-> "1.0",
     truncation |-> "disabled"]

\* the ResponseCreateRequest pydantic builds from a posted body: the fields
\* of the schema, an absent one at its default; other keys are dropped
ResponseCreateRequest_validate(body) ==
    [f \in {"api", "model", "input"} \cup DOMAIN FieldDefaults |->
        IF f \in DOMAIN body THEN body[f] ELSE FieldDefaults[f]]

\* request.metadata or {}
metadata_or_empty(metadata) ==
    IF metadata.type = "NoneType" \/ metadata.value = <<>> THEN Dict(<<>>) ELSE metadata

create_response(req, content, uuid1, uuid2, now) ==
    LET response_id == generate_response_id(uuid1)
        message_id == generate_message_id(uuid2)
        created_at == now
        input_tokens == responses_estimate_tokens(usage_input_text(req))
        output_tokens == responses_estimate_tokens(content)
    IN  [id |-> response_id,
         object |-> "response",
         created_at |-> created_at,
         status |-> "completed",
         completed_at |-> created_at,
         instructions |-> req.instructions,
         max_output_tokens |-> req.max_output_tokens,
         model |-> req.model,
         output |-> <<[type |-> "message",
                       id |-> message_id,
                       status |-> "completed",
                       role |-> "assistant",
                       content |-> <<OutputText(content)>>]>>,
         parallel_tool_calls |-> req.parallel_tool_calls,
         previous_response_id |-> req.previous_response_id,
         temperature |-> req.temperature,
         tool_choice |-> "auto",
         tools |-> <<>>,
         top_p |-> req.top_p,
         truncation |-> req.truncation,
         usage |-> ResponseUsage(input_tokens, output_tokens),
         metadata |-> metadata_or_empty(req.metadata)]

\* one `event: <kind>` / `data: <json>` block
Event(kind, data) == [event |-> kind, data |-> data]

ResponseSnapshot(response_id, model) ==
    [id |-> response_id, object |-> "response", status |-> "in_progress",
     model |-> model, output |-> <<>>]

created_event(response_id, model) ==
    Event("response.created",
          [type |-> "response.created",
           response |-> ResponseSnapshot(response_id, model)])

in_progress_event(response_id, model) ==
    Event("response.in_progress",
          [type |-> "response.in_progress",
           response |-> ResponseSnapshot(response_id, model)])

item_added_event(message_id) ==
    Event("response.output_item.added",
          [type |-> "response.output_item.added",
           output_index |-> 0,
           item |-> [type |-> "message", id |-> message_id, status |-> "in_progress",
                     role |-> "assistant", content |-> <<>>]])

content_part_added_event(message_id) ==
    Event("response.content_part.added",
          [type |-> "response.content_part.added",
           item_id |-> message_id, output_index |-> 0, content_index |-> 0,
           part |-> OutputText(<<>>)])

\* the non-empty texts of a sequence of texts
RECURSIVE NonEmptyTexts(_)
NonEmptyTexts(texts) ==
    IF texts = <<>> THEN <<>>
    ELSE (IF Head(texts) # <<>> THEN <<Head(texts)>> ELSE <<>>) \o NonEmptyTexts(Tail(texts))

\* mutant of responses_words: split() without a separator, which collapses
\* runs of spaces and drops the empty words
responses_words_collapsed(content) == NonEmptyTexts(split(content, " "))

responses_words(content) == split(content, " ")

\* delta = word if i == 0 else f" {word}"   (i counts from 0)
responses_delta(words, k) == IF k = 0 THEN words[k + 1] ELSE SP \o words[k + 1]

delta_event(message_id, delta) ==
    Event("response.output_text.delta",
          [type |-> "response.output_text.delta",
           item_id |-> message_id, output_index |-> 0, content_index |-> 0,
           delta |-> delta])

text_done_event(message_id, content) ==
    Event("response.output_text.done",
          [type |-> "response.output_text.done",
           item_id |-> message_id, output_index |-> 0, content_index |-> 0,
           text |-> content])

content_part_done_event(message_id, content) ==
    Event("response.content_part.done",
          [type |-> "response.content_part.done",
           item_id |-> message_id, output_index |-> 0, content_index |-> 0,
           part |-> OutputText(content)])

item_done_event(message_id, content) ==
    Event("response.output_item.done",
          [type |-> "response.output_item.done",
           output_index |-> 0,
           item |-> [type |-> "message", id |-> message_id, status |-> "completed",
                     role |-> "assistant", content |-> <<OutputText(content)>>]])

\* mutant of completed_event: the stream counts the words it has sent as its
\* output tokens
completed_event_word_count(response_id, message_id, req, content) ==
    LET input_tokens == responses_estimate_tokens(usage_input_text(req))
        output_tokens == Len(responses_words(content))
    IN  Event("response.completed",
              [type |-> "response.completed",
               response |->
                   [id |-> response_id,
                    object |-> "response",
                    status |-> "completed",
                    model |-> req.model,
                    output |-> <<[type |-> "message",
                                  id |-> message_id,
                                  status |-> "completed",
                                  role |-> "assistant",
                                  content |-> <<OutputText(content)>>]>>,
                    usage |-> completed_usage(input_tokens, output_tokens)]])

completed_event(response_id, message_id, req, content) ==
    LET input_tokens == responses_estimate_tokens(usage_input_text(req))
        output_tokens == responses_estimate_tokens(content)
    IN  Event("response.completed",
              [type |-> "response.completed",
               response |->
                   [id |-> response_id,
                    object |-> "response",
                    status |-> "completed",
                    model |-> req.model,
                    output |-> <<[type |-> "message",
                                  id |-> message_id,
                                  status |-> "completed",
                                  role |-> "assistant",
                                  content |-> <<OutputText(content)>>]>>,
                    usage |-> completed_usage(input_tokens, output_tokens)]])

(***************************************************************************)
(* State of a request that has not been handled yet.                       *)
(***************************************************************************)
NoRequest == [api |-> "none"]
NoResponse == [status_code |-> 0]
NoId == [prefix |-> "", hex |-> "", hexlen |-> 0]
NoIds ==
    [completion_id |-> NoId, created |-> 0, response_id |-> NoId, message_id |-> NoId]

\* HTTPExceptionResponse with the detail placed at the top level of the body
HTTPExceptionResponse_unwrapped(exc) ==
    [status_code |-> exc.status_code, body |-> exc.detail]

\* FastAPI's answer to a raised HTTPException: {"detail": exc.detail}
HTTPExceptionResponse(exc) ==
    [status_code |-> exc.status_code, body |-> [detail |-> exc.detail]]

StreamingResponse ==
    [status_code |-> 200,
     media_type |-> "text/event-stream",
     headers |-> [Cache_Control |-> "no-cache", Connection |-> "keep-alive"]]

JSONResponse(body) == [status_code |-> 200, body |-> body]

chat_get_strategy == chat_strategy

(***************************************************************************)
(* POST /v1/chat/completions                                               *)
(***************************************************************************)
\* a validated request body arrives; FastAPI resolves Depends(get_strategy)
ChatRequestFrom(s, bodies) ==
    /\ pc[s] = "idle"
    /\ \E req \in bodies :
           request' = [request EXCEPT ![s] = req]
    /\ strategy' = [strategy EXCEPT ![s] = chat_get_strategy]
    /\ pc' = [pc EXCEPT ![s] = "chat_endpoint"]
    /\ UNCHANGED <<config, environ, downstream, setter, chat_strategy, resp_strategy, response_content, i, ids, sent, http>>

ChatRequest(s) == ChatRequestFrom(s, ChatCompletionRequest)

\* mutant of create_chat_completion: the strategy is asked before the model
\* lookup, so a refused request has a reply as well
create_chat_completion_eager(s) ==
    /\ pc[s] = "chat_endpoint"
    /\ LET exc == chat_validate_model(request[s].model, config)
           content == generate_response(strategy[s], request[s])
       IN  /\ response_content' = [response_content EXCEPT ![s] = content]
           /\ IF exc.raised
              THEN /\ http' = [http EXCEPT ![s] = HTTPExceptionResponse(exc)]
                   /\ pc' = [pc EXCEPT ![s] = "done"]
              ELSE IF request[s].stream
                   THEN /\ http' = [http EXCEPT ![s] = StreamingResponse]
                        /\ pc' = [pc EXCEPT ![s] = "chat_stream"]
                   ELSE /\ \E uuid \in UUIDs :
                               http' = [http EXCEPT ![s] =
                                   JSONResponse(create_non_streaming_response(
                                       request[s], content, uuid))]
                        /\ pc' = [pc EXCEPT ![s] = "done"]
    /\ UNCHANGED <<config, environ, downstream, setter, chat_strategy, resp_strategy,
                   request, strategy, i, ids, sent>>

\* the endpoint body: validate_model, strategy.generate_response, then the
\* StreamingResponse or the ChatCompletion
create_chat_completion(s) ==
    /\ pc[s] = "chat_endpoint"
    /\ LET exc == chat_validate_model(request[s].model, config)
           content == generate_response(strategy[s], request[s])
       IN  IF exc.raised
           THEN /\ http' = [http EXCEPT ![s] = HTTPExceptionResponse(exc)]
                /\ pc' = [pc EXCEPT ![s] = "done"]
                /\ UNCHANGED response_content
           ELSE /\ response_content' = [response_content EXCEPT ![s] = content]
                /\ IF request[s].stream
                   THEN /\ http' = [http EXCEPT ![s] = StreamingResponse]
                        /\ pc' = [pc EXCEPT ![s] = "chat_stream"]
                   ELSE /\ \E uuid \in UUIDs :
                               http' = [http EXCEPT ![s] =
                                   JSONResponse(create_non_streaming_response(
                                       request[s], content, uuid))]
                        /\ pc' = [pc EXCEPT ![s] = "done"]
    /\ UNCHANGED <<config, environ, downstream, setter, chat_strategy, resp_strategy, request, strategy, i, ids, sent>>

\* generate_streaming_response up to its first yield: the role chunk
chat_first_chunk(s) ==
    /\ pc[s] = "chat_stream"
    /\ \E uuid \in UUIDs, created \in Times :
           LET completion_id == generate_completion_id(uuid)
           IN  /\ ids' = [ids EXCEPT ![s].completion_id = completion_id,
                                     ![s].created = created]
               /\ sent' = [sent EXCEPT ![s] = Append(@,
                      ChatCompletionChunk(completion_id, created, request[s].model,
                                          "assistant", <<>>, Null))]
    /\ i' = [i EXCEPT ![s] = 0]
    /\ pc' = [pc EXCEPT ![s] = "chat_words"]
    /\ UNCHANGED <<config, environ, downstream, setter, chat_strategy, resp_strategy, request, strategy,
                   response_content, http>>

\* mutant of chat_word_chunk: the pacing delay of another session holds the
\* event loop, as a blocking sleep would
chat_word_chunk_blocked(s) ==
    /\ \A t \in DOMAIN pc : pc[t] \notin {"chat_sleep", "resp_sleep"}
    /\ pc[s] = "chat_words"
    /\ i[s] < Len(chat_words(response_content[s]))
    /\ sent' = [sent EXCEPT ![s] = Append(@,
           ChatCompletionChunk(ids[s].completion_id, ids[s].created,
                               request[s].model, Null,
                               chat_delta(chat_words(response_content[s]), i[s]),
                               Null))]
    /\ pc' = [pc EXCEPT ![s] = "chat_sleep"]
    /\ UNCHANGED <<config, environ, downstream, setter, chat_strategy, resp_strategy, request, strategy,
                   response_content, i, ids, http>>

\* the loop body up to its yield: the chunk of word i
chat_word_chunk(s) ==
    /\ pc[s] = "chat_words"
    /\ i[s] < Len(chat_words(response_content[s]))
    /\ sent' = [sent EXCEPT ![s] = Append(@,
           ChatCompletionChunk(ids[s].completion_id, ids[s].created,
                               request[s].model, Null,
                               chat_delta(chat_words(response_content[s]), i[s]),
                               Null))]
    /\ pc' = [pc EXCEPT ![s] = "chat_sleep"]
    /\ UNCHANGED <<config, environ, downstream, setter, chat_strategy, resp_strategy, request, strategy,
                   response_content, i, ids, http>>

\* await asyncio.sleep(0.01) returns; the loop moves to the next word
chat_sleep(s) ==
    /\ pc[s] = "chat_sleep"
    /\ i' = [i EXCEPT ![s] = @ + 1]
    /\ pc' = [pc EXCEPT ![s] = "chat_words"]
    /\ UNCHANGED <<config, environ, downstream, setter, chat_strategy, resp_strategy, request, strategy,
                   response_content, ids, sent, http>>

\* mutant of chat_final_chunk: the clock is read again for the last chunk
chat_final_chunk_reclocked(s) ==
    /\ pc[s] = "chat_words"
    /\ i[s] >= Len(chat_words(response_content[s]))
    /\ \E created \in Times :
           sent' = [sent EXCEPT ![s] = Append(@,
               ChatCompletionChunk(ids[s].completion_id, created,
                                   request[s].model, Null, None, "stop"))]
    /\ pc' = [pc EXCEPT ![s] = "chat_done_marker"]
    /\ UNCHANGED <<config, environ, downstream, setter, chat_strategy, resp_strategy,
                   request, strategy, response_content, i, ids, http>>

\* the loop is exhausted: the chunk carrying finish_reason
chat_final_chunk(s) ==
    /\ pc[s] = "chat_words"
    /\ i[s] >= Len(chat_words(response_content[s]))
    /\ sent' = [sent EXCEPT ![s] = Append(@,
           ChatCompletionChunk(ids[s].completion_id, ids[s].created,
                               request[s].model, Null,
                               None, "stop"))]
    /\ pc' = [pc EXCEPT ![s] = "chat_done_marker"]
    /\ UNCHANGED <<config, environ, downstream, setter, chat_strategy, resp_strategy, request, strategy,
                   response_content, i, ids, http>>

\* mutant of chat_done_marker: the generator returns without the [DONE] line
chat_done_marker_omitted(s) ==
    /\ pc[s] = "chat_done_marker"
    /\ pc' = [pc EXCEPT ![s] = "done"]
    /\ UNCHANGED <<config, environ, downstream, setter, chat_strategy, resp_strategy, request, strategy,
                   response_content, i, ids, sent, http>>

\* yield "data: [DONE]\n\n"; the generator then returns
chat_done_marker(s) ==
    /\ pc[s] = "chat_done_marker"
    /\ sent' = [sent EXCEPT ![s] = Append(@, DoneMarker)]
    /\ pc' = [pc EXCEPT ![s] = "done"]
    /\ UNCHANGED <<config, environ, downstream, setter, chat_strategy, resp_strategy, request, strategy,
                   response_content, i, ids, http>>

(***************************************************************************)
(* POST /v1/responses                                                      *)
(***************************************************************************)
responses_get_strategy == resp_strategy

\* a validated request body arrives; FastAPI resolves Depends(get_strategy)
ResponsesRequestFrom(s, bodies) ==
    /\ pc[s] = "idle"
    /\ \E req \in bodies :
           request' = [request EXCEPT ![s] = req]
    /\ strategy' = [strategy EXCEPT ![s] = responses_get_strategy]
    /\ pc' = [pc EXCEPT ![s] = "resp_endpoint"]
    /\ UNCHANGED <<config, environ, downstream, setter, chat_strategy, resp_strategy, response_content, i, ids, sent, http>>

ResponsesRequest(s) == ResponsesRequestFrom(s, ResponseCreateRequest)

\* the endpoint body: validate_model, strategy.generate_response, then the
\* StreamingResponse or the Response
create_response_endpoint(s) ==
    /\ pc[s] = "resp_endpoint"
    /\ LET exc == responses_validate_model(request[s].model, config)
           content == generate_response(strategy[s], request[s])
       IN  IF exc.raised
           THEN /\ http' = [http EXCEPT ![s] = HTTPExceptionResponse(exc)]
                /\ pc' = [pc EXCEPT ![s] = "done"]
                /\ UNCHANGED response_content
           ELSE /\ response_content' = [response_content EXCEPT ![s] = content]
                /\ IF ResponseCreateRequest_validate(request[s]).stream
                   THEN /\ http' = [http EXCEPT ![s] = StreamingResponse]
                        /\ pc' = [pc EXCEPT ![s] = "resp_stream"]
                   ELSE /\ \E uuid1, uuid2 \in UUIDs, now \in Times :
                               http' = [http EXCEPT ![s] =
                                   JSONResponse(create_response(
                                       ResponseCreateRequest_validate(request[s]),
                                       content, uuid1, uuid2, now))]
                        /\ pc' = [pc EXCEPT ![s] = "done"]
    /\ UNCHANGED <<config, environ, downstream, setter, chat_strategy, resp_strategy, request, strategy, i, ids, sent>>

\* a step of generate_streaming_response that yields `event` and moves on
resp_yield(s, from, event, to) ==
    /\ pc[s] = from
    /\ sent' = [sent EXCEPT ![s] = Append(@, event)]
    /\ pc' = [pc EXCEPT ![s] = to]
    /\ UNCHANGED <<config, environ, downstream, setter, chat_strategy, resp_strategy, request, strategy,
                   response_content, http>>

\* generate_streaming_response up to its first yield
resp_created(s) ==
    /\ \E uuid1, uuid2 \in UUIDs :
           /\ ids' = [ids EXCEPT ![s].response_id = generate_response_id(uuid1),
                                 ![s].message_id = generate_message_id(uuid2)]
           /\ resp_yield(s, "resp_stream",
                         created_event(generate_response_id(uuid1), request[s].model),
                         "resp_in_progress")
    /\ UNCHANGED i

resp_in_progress(s) ==
    /\ resp_yield(s, "resp_in_progress",
                  in_progress_event(ids[s].response_id, request[s].model),
                  "resp_item_added")
    /\ UNCHANGED <<i, ids>>

resp_item_added(s) ==
    /\ resp_yield(s, "resp_item_added", item_added_event(ids[s].message_id),
                  "resp_part_added")
    /\ UNCHANGED <<i, ids>>

resp_content_part_added(s) ==
    /\ resp_yield(s, "resp_part_added", content_part_added_event(ids[s].message_id),
                  "resp_words")
    /\ i' = [i EXCEPT ![s] = 0]
    /\ UNCHANGED ids

\* the loop body up to its yield: the delta of word i
resp_delta(s) ==
    /\ i[s] < Len(responses_words(response_content[s]))
    /\ resp_yield(s, "resp_words",
                  delta_event(ids[s].message_id,
                              responses_delta(responses_words(response_content[s]), i[s])),
                  "resp_sleep")
    /\ UNCHANGED <<i, ids>>

\* mutant of resp_sleep: the wake-up of the pacing delay is lost
resp_sleep_lost(s) ==
    /\ pc[s] = "resp_sleep"
    /\ pc' = [pc EXCEPT ![s] = "suspended"]
    /\ UNCHANGED <<config, environ, downstream, setter, chat_strategy, resp_strategy, request, strategy,
                   response_content, i, ids, sent, http>>

\* await asyncio.sleep(0.01) returns; the loop moves to the next word
resp_sleep(s) ==
    /\ pc[s] = "resp_sleep"
    /\ i' = [i EXCEPT ![s] = @ + 1]
    /\ pc' = [pc EXCEPT ![s] = "resp_words"]
    /\ UNCHANGED <<config, environ, downstream, setter, chat_strategy, resp_strategy, request, strategy,
                   response_content, ids, sent, http>>

\* mutant of resp_text_done: the text of output_text.done is asked again of
\* the strategy the router holds when the event is built
resp_text_done_reasked(s) ==
    /\ i[s] >= Len(responses_words(response_content[s]))
    /\ resp_yield(s, "resp_words",
                  text_done_event(ids[s].message_id,
                                  generate_response(resp_strategy, request[s])),
                  "resp_part_done")
    /\ UNCHANGED <<i, ids>>

\* the loop is exhausted
resp_text_done(s) ==
    /\ i[s] >= Len(responses_words(response_content[s]))
    /\ resp_yield(s, "resp_words",
                  text_done_event(ids[s].message_id, response_content[s]),
                  "resp_part_done")
    /\ UNCHANGED <<i, ids>>

resp_content_part_done(s) ==
    /\ resp_yield(s, "resp_part_done",
                  content_part_done_event(ids[s].message_id, response_content[s]),
                  "resp_item_done")
    /\ UNCHANGED <<i, ids>>

resp_item_done(s) ==
    /\ resp_yield(s, "resp_item_done",
                  item_done_event(ids[s].message_id, response_content[s]),
                  "resp_completed")
    /\ UNCHANGED <<i, ids>>

\* the last yield; the generator then returns
resp_completed(s) ==
    /\ resp_yield(s, "resp_completed",
                  completed_event(ids[s].response_id, ids[s].message_id,
                                  request[s], response_content[s]),
                  "done")
    /\ UNCHANGED <<i, ids>>

(***************************************************************************)
(* The transport of a streaming response closes: the generator is closed   *)
(* at the yield or await it is suspended in.  It has no try, finally or    *)
(* except block, so nothing of it runs any more.                           *)
(***************************************************************************)
ChatStreamPcs == {"chat_stream", "chat_words", "chat_sleep", "chat_done_marker"}
RespStreamPcs ==
    {"resp_stream", "resp_in_progress", "resp_item_added", "resp_part_added",
     "resp_words", "resp_sleep", "resp_part_done", "resp_item_done",
     "resp_completed"}
StreamPcs == ChatStreamPcs \cup RespStreamPcs

\* mutant of transport_close: the closed stream is given its last block
transport_close_repaired(s) ==
    /\ pc[s] \in StreamPcs
    /\ pc' = [pc EXCEPT ![s] = "closed"]
    /\ sent' = [sent EXCEPT ![s] = Append(@, DoneMarker)]
    /\ UNCHANGED <<config, environ, downstream, setter, chat_strategy, resp_strategy, request, strategy,
                   response_content, i, ids, http>>

transport_close(s) ==
    /\ pc[s] \in StreamPcs
    /\ pc' = [pc EXCEPT ![s] = "closed"]
    /\ UNCHANGED <<config, environ, downstream, setter, chat_strategy, resp_strategy, request, strategy,
                   response_content, i, ids, sent, http>>

(***************************************************************************)
(* set_strategy(strategy) of either router, as its caller's thread runs    *)
(* it: the call binds the argument, one store replaces the module global,  *)
(* the call returns.                                                       *)
(***************************************************************************)
Routers == {"chat", "responses"}
NoCall == [pc |-> "idle", strategy |-> Null]
StrategiesOf(r) == IF r = "chat" THEN ChatStrategies ELSE ResponseStrategies

\* set_strategy(strategy) is called with one of `strategies`
set_strategy_call_with(r, strategies) ==
    /\ setter[r].pc = "idle"
    /\ \E new \in strategies :
           setter' = [setter EXCEPT ![r] = [pc |-> "store", strategy |-> new]]
    /\ UNCHANGED <<config, environ, downstream, chat_strategy, resp_strategy, pc, request, strategy,
                   response_content, i, ids, sent, http>>

set_strategy_call(r) == set_strategy_call_with(r, StrategiesOf(r))

\* mutant of set_strategy_store: the global is cleared, not replaced
set_strategy_store_cleared(r) ==
    /\ setter[r].pc = "store"
    /\ IF r = "chat"
       THEN chat_strategy' = Null /\ UNCHANGED resp_strategy
       ELSE resp_strategy' = Null /\ UNCHANGED chat_strategy
    /\ setter' = [setter EXCEPT ![r].pc = "return"]
    /\ UNCHANGED <<config, environ, downstream, pc, request, strategy, response_content, i, ids, sent, http>>

\* global _default_strategy; _default_strategy = strategy
set_strategy_store(r) ==
    /\ setter[r].pc = "store"
    /\ IF r = "chat"
       THEN chat_strategy' = setter[r].strategy /\ UNCHANGED resp_strategy
       ELSE resp_strategy' = setter[r].strategy /\ UNCHANGED chat_strategy
    /\ setter' = [setter EXCEPT ![r].pc = "return"]
    /\ UNCHANGED <<config, environ, downstream, pc, request, strategy, response_content, i, ids, sent, http>>

\* the call returns None; the record keeps the strategy it installed
set_strategy_return(r) ==
    /\ setter[r].pc = "return"
    /\ setter' = [setter EXCEPT ![r].pc = "idle"]
    /\ UNCHANGED <<config, environ, downstream, chat_strategy, resp_strategy, pc, request, strategy,
                   response_content, i, ids, sent, http>>

(***************************************************************************)
(* The specification.                                                      *)
(***************************************************************************)
Requests == {"r1"}

\* the module globals after import, and the per-request state of the
\* requests in `requests` before they arrive
Start(requests) ==
    /\ environ = <<>>
    /\ downstream = [s \in requests |-> 0]
    /\ setter = [r \in Routers |-> NoCall]
    /\ chat_strategy = "ChatMirrorStrategy"
    /\ resp_strategy = "ResponseMirrorStrategy"
    /\ pc = [s \in requests |-> "idle"]
    /\ request = [s \in requests |-> NoRequest]
    /\ strategy = [s \in requests |-> Null]
    /\ response_content = [s \in requests |-> None]
    /\ i = [s \in requests |-> 0]
    /\ ids = [s \in requests |-> NoIds]
    /\ sent = [s \in requests |-> <<>>]
    /\ http = [s \in requests |-> NoResponse]

Init ==
    /\ config \in Configs
    /\ Start(Requests)

Next ==
    \/ \E s \in DOMAIN pc : ChatRequest(s)
    \/ \E s \in DOMAIN pc : create_chat_completion(s)
    \/ \E s \in DOMAIN pc : chat_first_chunk(s)
    \/ \E s \in DOMAIN pc : chat_word_chunk(s)
    \/ \E s \in DOMAIN pc : chat_sleep(s)
    \/ \E s \in DOMAIN pc : chat_final_chunk(s)
    \/ \E s \in DOMAIN pc : chat_done_marker(s)
    \/ \E s \in DOMAIN pc : ResponsesRequest(s)
    \/ \E s \in DOMAIN pc : create_response_endpoint(s)
    \/ \E s \in DOMAIN pc : resp_created(s)
    \/ \E s \in DOMAIN pc : resp_in_progress(s)
    \/ \E s \in DOMAIN pc : resp_item_added(s)
    \/ \E s \in DOMAIN pc : resp_content_part_added(s)
    \/ \E s \in DOMAIN pc : resp_delta(s)
    \/ \E s \in DOMAIN pc : resp_sleep(s)
    \/ \E s \in DOMAIN pc : resp_text_done(s)
    \/ \E s \in DOMAIN pc : resp_content_part_done(s)
    \/ \E s \in DOMAIN pc : resp_item_done(s)
    \/ \E s \in DOMAIN pc : resp_completed(s)

Spec == Init /\ [][Next]_vars

(***************************************************************************)
(* The application while a caller swaps the strategies: two requests with  *)
(* short non-streaming bodies, and set_strategy calls of both routers at   *)
(* any moment.  The streaming generators are left out: the strategy is     *)
(* obtained and called before a generator is created.                      *)
(***************************************************************************)
SwapRequests == {"r1", "r2"}

SwapChatBodies ==
    [api : {"chat"}, model : {"gpt-4"},
     messages : {<<[role |-> "user", content |-> <<"a">>]>>}, stream : {FALSE}]

SwapResponseBodies ==
    [api : {"responses"}, model : {"gpt-4"}, input : {Str(<<"a">>)},
     instructions : {None}, stream : {FALSE}]

SwapChatRequest(s) == ChatRequestFrom(s, SwapChatBodies)
SwapResponsesRequest(s) == ResponsesRequestFrom(s, SwapResponseBodies)

InitSwap ==
    /\ config \in Configs
    /\ Start(SwapRequests)

NextSwap ==
    \/ \E r \in Routers : set_strategy_call(r)
    \/ \E r \in Routers : set_strategy_store(r)
    \/ \E r \in Routers : set_strategy_return(r)
    \/ \E s \in DOMAIN pc : SwapChatRequest(s)
    \/ \E s \in DOMAIN pc : create_chat_completion(s)
    \/ \E s \in DOMAIN pc : SwapResponsesRequest(s)
    \/ \E s \in DOMAIN pc : create_response_endpoint(s)

SpecSwap == InitSwap /\ [][NextSwap]_vars

(***************************************************************************)
(* The application handling two requests, one after the other or           *)
(* interleaved, whose bodies are drawn from a short list that has both     *)
(* endpoints, both stream flags, a known and an unknown model.             *)
(***************************************************************************)
PairRequests == {"r1", "r2"}

PairChatBodies ==
    [api : {"chat"}, model : ModelIds,
     messages : {<<[role |-> "user", content |-> <<"a", " ", "b">>]>>},
     stream : BOOLEAN]

PairResponseBodies ==
    [api : {"responses"}, model : ModelIds, input : {Str(<<"a", " ", "b">>)},
     instructions : {None, <<"b">>}, stream : BOOLEAN]

PairChatRequest(s) == ChatRequestFrom(s, PairChatBodies)
PairResponsesRequest(s) == ResponsesRequestFrom(s, PairResponseBodies)

InitPair ==
    /\ config \in Configs
    /\ Start(PairRequests)

NextPair ==
    \/ \E s \in DOMAIN pc : PairChatRequest(s)
    \/ \E s \in DOMAIN pc : create_chat_completion(s)
    \/ \E s \in DOMAIN pc : chat_first_chunk(s)
    \/ \E s \in DOMAIN pc : chat_word_chunk(s)
    \/ \E s \in DOMAIN pc : chat_sleep(s)
    \/ \E s \in DOMAIN pc : chat_final_chunk(s)
    \/ \E s \in DOMAIN pc : chat_done_marker(s)
    \/ \E s \in DOMAIN pc : PairResponsesRequest(s)
    \/ \E s \in DOMAIN pc : create_response_endpoint(s)
    \/ \E s \in DOMAIN pc : resp_created(s)
    \/ \E s \in DOMAIN pc : resp_in_progress(s)
    \/ \E s \in DOMAIN pc : resp_item_added(s)
    \/ \E s \in DOMAIN pc : resp_content_part_added(s)
    \/ \E s \in DOMAIN pc : resp_delta(s)
    \/ \E s \in DOMAIN pc : resp_sleep(s)
    \/ \E s \in DOMAIN pc : resp_text_done(s)
    \/ \E s \in DOMAIN pc : resp_content_part_done(s)
    \/ \E s \in DOMAIN pc : resp_item_done(s)
    \/ \E s \in DOMAIN pc : resp_completed(s)

SpecPair == InitPair /\ [][NextPair]_vars

(***************************************************************************)
(* The unified endpoint answering one non-streaming request whose body     *)
(* carries the optional fields of the protocol, or none of them.           *)
(***************************************************************************)
\* a posted body without any optional key
EchoBareBody == [api |-> "responses", model |-> "gpt-4", input |-> Str(<<"a">>)]

\* posted bodies with every optional key, tool settings included
EchoFullBodies ==
    [api : {"responses"}, model : {"gpt-4"}, input : {Str(<<"a">>)},
     stream : {FALSE},
     instructions : {None, <<"b">>},
     max_output_tokens : {Null, "100"},
     metadata : {NoneDict, Dict(<<>>), Dict(<< <<"user_id", "123">> >>)},
     parallel_tool_calls : BOOLEAN,
     previous_response_id : {Null, "resp_prev"},
     temperature : {Null, "0.5"},
     top_p : {"0.9"},
     truncation : {"auto", "disabled"},
     tool_choice : {"auto", "required"},
     tools : {<<>>, <<[type |-> "function", name |-> "f"]>>}]

EchoBodies == {EchoBareBody} \cup EchoFullBodies

EchoResponsesRequest(s) == ResponsesRequestFrom(s, EchoBodies)

InitEcho ==
    /\ config \in Configs
    /\ Start(Requests)

NextEcho ==
    \/ \E s \in DOMAIN pc : EchoResponsesRequest(s)
    \/ \E s \in DOMAIN pc : create_response_endpoint(s)

SpecEcho == InitEcho /\ [][NextEcho]_vars

(***************************************************************************)
(* The application with two streaming requests in flight on the one event  *)
(* loop: between two yields or awaits of a generator the other one may     *)
(* run, and either transport may close.                                    *)
(***************************************************************************)
ConcRequests == {"r1", "r2"}

ConcTexts == {<<"a">>, <<"a", " ", "b">>}

ConcChatBodies ==
    [api : {"chat"}, model : {"gpt-4"},
     messages : {<<[role |-> "user", content |-> t]>> : t \in ConcTexts},
     stream : {TRUE}]

ConcResponseBodies ==
    [api : {"responses"}, model : {"gpt-4"}, input : {Str(t) : t \in ConcTexts},
     instructions : {None}, stream : {TRUE}]

ConcChatRequest(s) == ChatRequestFrom(s, ConcChatBodies)
ConcResponsesRequest(s) == ResponsesRequestFrom(s, ConcResponseBodies)

\* one step of the generator of request s: from a resumption to the next
\* yield, await or return
StreamStep(s) ==
    \/ chat_first_chunk(s)
    \/ chat_word_chunk(s)
    \/ chat_sleep(s)
    \/ chat_final_chunk(s)
    \/ chat_done_marker(s)
    \/ resp_created(s)
    \/ resp_in_progress(s)
    \/ resp_item_added(s)
    \/ resp_content_part_added(s)
    \/ resp_delta(s)
    \/ resp_sleep(s)
    \/ resp_text_done(s)
    \/ resp_content_part_done(s)
    \/ resp_item_done(s)
    \/ resp_completed(s)

InitConc ==
    /\ config \in Configs
    /\ Start(ConcRequests)

NextConc ==
    \/ \E s \in DOMAIN pc : ConcChatRequest(s)
    \/ \E s \in DOMAIN pc : create_chat_completion(s)
    \/ \E s \in DOMAIN pc : chat_first_chunk(s)
    \/ \E s \in DOMAIN pc : chat_word_chunk(s)
    \/ \E s \in DOMAIN pc : chat_sleep(s)
    \/ \E s \in DOMAIN pc : chat_final_chunk(s)
    \/ \E s \in DOMAIN pc : chat_done_marker(s)
    \/ \E s \in DOMAIN pc : ConcResponsesRequest(s)
    \/ \E s \in DOMAIN pc : create_response_endpoint(s)
    \/ \E s \in DOMAIN pc : resp_created(s)
    \/ \E s \in DOMAIN pc : resp_in_progress(s)
    \/ \E s \in DOMAIN pc : resp_item_added(s)
    \/ \E s \in DOMAIN pc : resp_content_part_added(s)
    \/ \E s \in DOMAIN pc : resp_delta(s)
    \/ \E s \in DOMAIN pc : resp_sleep(s)
    \/ \E s \in DOMAIN pc : resp_text_done(s)
    \/ \E s \in DOMAIN pc : resp_content_part_done(s)
    \/ \E s \in DOMAIN pc : resp_item_done(s)
    \/ \E s \in DOMAIN pc : resp_completed(s)
    \/ \E s \in DOMAIN pc : transport_close(s)

SpecConc == InitConc /\ [][NextConc]_vars

(***************************************************************************)
(* The same, with the scheduling of the event loop: a generator that is    *)
(* ready to run, or whose asyncio.sleep(0.01) timer has been set, is       *)
(* resumed after finitely many steps of the others unless its transport    *)
(* closes.  Nothing obliges a request to arrive or a transport to close.   *)
(***************************************************************************)
SpecFair ==
    /\ InitConc
    /\ [][NextConc]_vars
    /\ \A s \in ConcRequests : WF_vars(StreamStep(s))


(***************************************************************************)
(* Vocabulary of the properties.                                           *)
(***************************************************************************)
\* the request was accepted and its reply text obtained
Replied(s) ==
    /\ pc[s] \notin {"idle", "chat_endpoint", "resp_endpoint"}
    /\ http[s].status_code = 200

ChatStreaming(s) == Replied(s) /\ request[s].api = "chat" /\ request[s].stream
RespStreaming(s) == Replied(s) /\ request[s].api = "responses" /\ request[s].stream
Finished(s) == pc[s] = "done"

\* the concatenation of a sequence of texts
RECURSIVE Concat(_)
Concat(texts) == IF texts = <<>> THEN <<>> ELSE Head(texts) \o Concat(Tail(texts))

IsPrefix(p, t) == Len(p) <= Len(t) /\ p = SubSeq(t, 1, Len(p))

\* a chat block that carries a per-word chunk
IsChatWordChunk(f) ==
    /\ "data" \in DOMAIN f
    /\ f.data.choices[1].delta.role = Null
    /\ f.data.choices[1].delta.content # None

\* delta.content of the per-word chunks of a chat stream, in emission order
RECURSIVE ChatDeltas(_)
ChatDeltas(frames) ==
    IF frames = <<>> THEN <<>>
    ELSE (IF IsChatWordChunk(Head(frames))
          THEN <<Head(frames).data.choices[1].delta.content>> ELSE <<>>)
         \o ChatDeltas(Tail(frames))

\* delta of the response.output_text.delta events, in emission order
RECURSIVE RespDeltas(_)
RespDeltas(frames) ==
    IF frames = <<>> THEN <<>>
    ELSE (IF Head(frames).event = "response.output_text.delta"
          THEN <<Head(frames).data.delta>> ELSE <<>>)
         \o RespDeltas(Tail(frames))

\* the word count of a text: one more than its number of spaces
WordCount(text) == Cardinality({k \in 1..Len(text) : text[k] = " "}) + 1

Kinds(frames) == [k \in 1..Len(frames) |-> frames[k].event]

\* the fixed order of event kinds around n delta events
ExpectedKinds(n) ==
    <<"response.created", "response.in_progress", "response.output_item.added",
      "response.content_part.added">>
    \o [k \in 1..n |-> "response.output_text.delta"]
    \o <<"response.output_text.done", "response.content_part.done",
         "response.output_item.done", "response.completed">>

(***************************************************************************)
(* C1: in both streams the deltas emitted so far concatenate to a prefix   *)
(* of the reply text, and once the stream has ended they concatenate to    *)
(* exactly the reply text, whatever its leading, trailing or consecutive   *)
(* spaces.                                                                 *)
(***************************************************************************)
C1_DeltasReproduceReply ==
    \A s \in DOMAIN pc :
        /\ ChatStreaming(s) =>
               /\ IsPrefix(Concat(ChatDeltas(sent[s])), response_content[s])
               /\ Finished(s) => Concat(ChatDeltas(sent[s])) = response_content[s]
        /\ RespStreaming(s) =>
               /\ IsPrefix(Concat(RespDeltas(sent[s])), response_content[s])
               /\ Finished(s) => Concat(RespDeltas(sent[s])) = response_content[s]

\* a finished unified stream of a reply that starts with two consecutive
\* spaces: three deltas, the first of them empty
C1_Witness ==
    \E s \in DOMAIN pc :
        /\ RespStreaming(s) /\ Finished(s)
        /\ response_content[s] = <<" ", " ", "a">>
        /\ RespDeltas(sent[s]) = << <<>>, <<" ">>, <<" ", "a">> >>

(***************************************************************************)
(* C2: the event kinds of a unified stream are, in this order, created,    *)
(* in_progress, output_item.added, content_part.added, one                 *)
(* output_text.delta per word of the reply, output_text.done,              *)
(* content_part.done, output_item.done, completed; at every moment the     *)
(* kinds emitted are a prefix of that list, at the end they are the whole  *)
(* list, and no block without an event kind (a sentinel line) is emitted.  *)
(***************************************************************************)
C2_UnifiedEventOrder ==
    \A s \in DOMAIN pc :
        RespStreaming(s) =>
            /\ \A k \in 1..Len(sent[s]) : "event" \in DOMAIN sent[s][k]
            /\ IsPrefix(Kinds(sent[s]), ExpectedKinds(WordCount(response_content[s])))
            /\ Finished(s) =>
                   Kinds(sent[s]) = ExpectedKinds(WordCount(response_content[s]))

\* a finished unified stream with three delta events, one of an empty word
C2_Witness ==
    \E s \in DOMAIN pc :
        /\ RespStreaming(s) /\ Finished(s)
        /\ response_content[s] = <<"a", " ", " ">>
        /\ Len(sent[s]) = 11

\* a delta that carries one word: the word alone when it is the first of the
\* stream, and otherwise one space followed by the word
OneWordDelta(delta, first) ==
    IF first
    THEN \A k \in 1..Len(delta) : delta[k] # " "
    ELSE /\ Len(delta) >= 1
         /\ delta[1] = " "
         /\ \A k \in 2..Len(delta) : delta[k] # " "

(***************************************************************************)
(* C3: a finished chat stream holds 2 + wordCount(reply) JSON blocks       *)
(* followed by the [DONE] line, which occurs once and last; the first      *)
(* block has delta.role "assistant" and content ""; the blocks between     *)
(* the first and the last JSON block each carry the delta of one word     *)
(* with finish_reason null; the last JSON block has an empty delta and     *)
(* finish_reason "stop".                                                   *)
(***************************************************************************)
C3_ChatFrames ==
    \A s \in DOMAIN pc :
        (ChatStreaming(s) /\ Finished(s)) =>
            LET frames == sent[s]
                n == Len(frames) - 1
                choice(k) == frames[k].data.choices[1]
            IN  /\ n = 2 + WordCount(response_content[s])
                /\ \A k \in 1..n : "data" \in DOMAIN frames[k]
                /\ frames[n + 1] = [literal |-> "data: [DONE]"]
                /\ choice(1).delta = [role |-> "assistant", content |-> <<>>]
                /\ choice(1).finish_reason = Null
                /\ \A k \in 2..(n - 1) :
                       /\ choice(k).delta.role = Null
                       /\ choice(k).delta.content # None
                       /\ OneWordDelta(choice(k).delta.content, k = 2)
                       /\ choice(k).finish_reason = Null
                /\ choice(n).delta = [role |-> Null, content |-> None]
                /\ choice(n).finish_reason = "stop"

\* a finished chat stream of a three-word reply (two of the words empty)
C3_Witness ==
    \E s \in DOMAIN pc :
        /\ ChatStreaming(s) /\ Finished(s)
        /\ response_content[s] = <<" ", "a", " ">>
        /\ Len(sent[s]) = 6


(***************************************************************************)
(* C4 as claimed: a finished stream of a single-word or empty reply holds  *)
(* no delta event.                                                         *)
(***************************************************************************)
C4_ZeroDeltasAsClaimed ==
    \A s \in DOMAIN pc :
        /\ (RespStreaming(s) /\ Finished(s) /\ WordCount(response_content[s]) = 1)
               => RespDeltas(sent[s]) = <<>>
        /\ (ChatStreaming(s) /\ Finished(s) /\ WordCount(response_content[s]) = 1)
               => ChatDeltas(sent[s]) = <<>>

(***************************************************************************)
(* C4 amended: a finished stream of a single-word or empty reply holds     *)
(* exactly one delta event, which carries the whole reply (the empty       *)
(* string for an empty reply), between the framing events in their fixed   *)
(* order; no finished stream has an empty delta region.                    *)
(***************************************************************************)
C4_OneDeltaForSingleWord ==
    \A s \in DOMAIN pc :
        /\ (RespStreaming(s) /\ Finished(s)) =>
               /\ RespDeltas(sent[s]) # <<>>
               /\ WordCount(response_content[s]) = 1 =>
                      /\ RespDeltas(sent[s]) = <<response_content[s]>>
                      /\ Kinds(sent[s]) = ExpectedKinds(1)
        /\ (ChatStreaming(s) /\ Finished(s)) =>
               /\ ChatDeltas(sent[s]) # <<>>
               /\ WordCount(response_content[s]) = 1 =>
                      /\ ChatDeltas(sent[s]) = <<response_content[s]>>
                      /\ Len(sent[s]) = 4
                      /\ sent[s][1].data.choices[1].delta.role = "assistant"
                      /\ IsChatWordChunk(sent[s][2])
                      /\ sent[s][3].data.choices[1].finish_reason = "stop"
                      /\ sent[s][4] = [literal |-> "data: [DONE]"]

\* a finished unified stream of the empty reply: one delta event, carrying ""
C4_Witness ==
    \E s \in DOMAIN pc :
        /\ RespStreaming(s) /\ Finished(s)
        /\ response_content[s] = <<>>
        /\ Len(sent[s]) = 9
        /\ sent[s][5].data.delta = <<>>

(***************************************************************************)
(* Where a request's usage objects are.                                    *)
(***************************************************************************)
ChatResponded(s) ==
    Replied(s) /\ Finished(s) /\ request[s].api = "chat" /\ ~request[s].stream
RespResponded(s) ==
    Replied(s) /\ Finished(s) /\ request[s].api = "responses" /\ ~request[s].stream
RespCompleted(s) == RespStreaming(s) /\ Finished(s)

\* the usage object of the response.completed event of a finished stream
CompletedUsage(s) == sent[s][Len(sent[s])].data.response.usage

(***************************************************************************)
(* C5: in the usage of a chat completion, of a unified response and of a   *)
(* stream's response.completed event, total_tokens is the sum of the       *)
(* input (prompt) and the output (completion) tokens.                      *)
(***************************************************************************)
C5_UsageTotal ==
    \A s \in DOMAIN pc :
        /\ ChatResponded(s) =>
               LET u == http[s].body.usage
               IN  u.total_tokens = u.prompt_tokens + u.completion_tokens
        /\ RespResponded(s) =>
               LET u == http[s].body.usage
               IN  u.total_tokens = u.input_tokens + u.output_tokens
        /\ RespCompleted(s) =>
               LET u == CompletedUsage(s)
               IN  u.total_tokens = u.input_tokens + u.output_tokens

\* a response.completed event whose usage counts 2 input tokens and 1
\* output token
C5_Witness ==
    \E s \in DOMAIN pc :
        /\ RespCompleted(s)
        /\ CompletedUsage(s).input_tokens = 2
        /\ CompletedUsage(s).output_tokens = 1
        /\ CompletedUsage(s).total_tokens = 3

(***************************************************************************)
(* C6: every token count is max(1, floor(len(text) / 4)) of its source     *)
(* text: it is at least 1, it is 1 for a text shorter than 4 characters,   *)
(* and otherwise 4 * n <= len(text) < 4 * n + 4; the two routers'          *)
(* estimators agree on every text.                                         *)
(***************************************************************************)
IsEstimate(n, text) ==
    /\ n >= 1
    /\ Len(text) < 4 => n = 1
    /\ Len(text) >= 4 => (4 * n <= Len(text) /\ Len(text) < 4 * n + 4)

\* the texts of a chat request with truthy content, in order
TruthyContents(messages) ==
    LET idx == {k \in 1..Len(messages) : messages[k].content \notin {None, <<>>}}
        nth[n \in 0..Len(messages)] ==
            IF n = 0 THEN 0 ELSE CHOOSE k \in idx : k > nth[n - 1] /\
                                     \A h \in idx : h > nth[n - 1] => k <= h
    IN  [n \in 1..Cardinality(idx) |-> messages[nth[n]].content]

C6_EstimateTokens ==
    \A s \in DOMAIN pc :
        /\ Replied(s) =>
               /\ IsEstimate(chat_estimate_tokens(response_content[s]), response_content[s])
               /\ chat_estimate_tokens(response_content[s])
                      = responses_estimate_tokens(response_content[s])
        /\ ChatResponded(s) =>
               /\ IsEstimate(http[s].body.usage.prompt_tokens,
                             join(SP, TruthyContents(request[s].messages)))
               /\ IsEstimate(http[s].body.usage.completion_tokens, response_content[s])
        /\ RespResponded(s) =>
               /\ IsEstimate(http[s].body.usage.input_tokens, usage_input_text(request[s]))
               /\ IsEstimate(http[s].body.usage.output_tokens, response_content[s])
        /\ RespCompleted(s) =>
               /\ IsEstimate(CompletedUsage(s).input_tokens, usage_input_text(request[s]))
               /\ IsEstimate(CompletedUsage(s).output_tokens, response_content[s])

\* a chat completion whose prompt is 9 characters long (2 tokens) and whose
\* reply is the 25-character sentinel (6 tokens)
C6_Witness ==
    \E s \in DOMAIN pc :
        /\ ChatResponded(s)
        /\ Len(join(SP, TruthyContents(request[s].messages))) = 9
        /\ http[s].body.usage.prompt_tokens = 2
        /\ Len(response_content[s]) = 25
        /\ http[s].body.usage.completion_tokens = 6

(***************************************************************************)
(* C7: the reply of the chat mirror strategy is the content of the last    *)
(* message with role user and a content that is neither None nor "", and   *)
(* the fixed sentinel when there is no such message.                       *)
(***************************************************************************)
EligibleMessages(messages) ==
    {k \in 1..Len(messages) :
         messages[k].role = "user" /\ messages[k].content \notin {None, <<>>}}

C7_ChatMirrorLastUser ==
    \A s \in DOMAIN pc :
        (Replied(s) /\ request[s].api = "chat" /\ strategy[s] = "ChatMirrorStrategy") =>
            LET messages == request[s].messages
                E == EligibleMessages(messages)
            IN  /\ E = {} => response_content[s] = NoUserMessage
                /\ E # {} =>
                       \E k \in E : /\ \A h \in E : h <= k
                                    /\ response_content[s] = messages[k].content

\* a later user message without content is skipped for an earlier one
C7_Witness ==
    \E s \in DOMAIN pc :
        /\ Replied(s) /\ request[s].api = "chat"
        /\ request[s].messages = <<[role |-> "user", content |-> <<"b", " ", " ", "a">>],
                                   [role |-> "user", content |-> None]>>
        /\ response_content[s] = <<"b", " ", " ", "a">>


(***************************************************************************)
(* The text of an input item, as the claims speak of it: its string        *)
(* content, or the first text part of its content list.                    *)
(***************************************************************************)
NoText == <<"NoText">>

ItemText(item) ==
    IF item.content.type = "str" THEN item.content.value
    ELSE LET parts == item.content.value
             T == {k \in 1..Len(parts) : parts[k].class = "InputTextContent"}
         IN  IF T = {} THEN NoText
             ELSE parts[CHOOSE k \in T : \A h \in T : k <= h].text

EligibleItems(items) ==
    {k \in 1..Len(items) :
         items[k].role = "user" /\ ItemText(items[k]) \notin {NoText, <<>>}}

ListInput(s) ==
    Replied(s) /\ request[s].api = "responses" /\ request[s].input.type = "list"

(***************************************************************************)
(* C8: on a list input the reply of the response mirror strategy is the    *)
(* text of the last item with role user and a non-empty text (user items   *)
(* with an empty text are skipped), and the fixed sentinel when there is   *)
(* no such item.                                                           *)
(***************************************************************************)
C8_ResponseMirrorLastNonEmptyUser ==
    \A s \in DOMAIN pc :
        (ListInput(s) /\ strategy[s] = "ResponseMirrorStrategy") =>
            LET items == request[s].input.value
                E == EligibleItems(items)
            IN  /\ E = {} => response_content[s] = NoUserInput
                /\ E # {} =>
                       \E k \in E : /\ \A h \in E : h <= k
                                    /\ response_content[s] = ItemText(items[k])

(***************************************************************************)
(* C9: the reply text of an accepted request is never None and never the   *)
(* empty string, for chat requests and for unified requests with a string  *)
(* or a list input.                                                        *)
(***************************************************************************)
C9_ReplyNeverEmpty ==
    \A s \in DOMAIN pc :
        Replied(s) => (response_content[s] # None /\ response_content[s] # <<>>)

(***************************************************************************)
(* C10: once the endpoint has run, a request is accepted (200) when the    *)
(* configured model list is empty or holds the requested id, and is        *)
(* answered 404 with code "model_not_found" and the requested id in the    *)
(* message when the list is non-empty and lacks the id; a rejected request *)
(* yields no reply and no frame, and no other error status occurs.         *)
(***************************************************************************)
AllowList ==
    IF "models" \in DOMAIN config
    THEN {config.models[k].id : k \in 1..Len(config.models)}
    ELSE {}

EndpointRan(s) == pc[s] \notin {"idle", "chat_endpoint", "resp_endpoint"}

C10_ModelLookup ==
    \A s \in DOMAIN pc :
        EndpointRan(s) =>
            LET id == request[s].model
            IN  /\ http[s].status_code \in {200, 404}
                /\ (AllowList = {} \/ id \in AllowList) <=> http[s].status_code = 200
                /\ http[s].status_code = 404 =>
                       /\ AllowList # {} /\ id \notin AllowList
                       /\ http[s].body.detail.error.code = "model_not_found"
                       /\ http[s].body.detail.error.type = "invalid_request_error"
                       /\ http[s].body.detail.error.param = "model"
                       /\ \E k \in 1..Len(http[s].body.detail.error.message) :
                              http[s].body.detail.error.message[k] = id
                       /\ Finished(s)
                       /\ response_content[s] = None
                       /\ sent[s] = <<>>

\* a unified request for a model missing from a non-empty list, answered 404
C10_Witness ==
    \E s \in DOMAIN pc :
        /\ request[s].api = "responses"
        /\ request[s].model = "other-model"
        /\ AllowList = {"gpt-4o", "gpt-4"}
        /\ http[s].status_code = 404
        /\ http[s].body.detail.error.code = "model_not_found"

(***************************************************************************)
(* C11 as stated: on model-not-found both endpoints answer 404 with a body *)
(* whose top-level object has the key "error", holding message, type       *)
(* "invalid_request_error", param "model" and code "model_not_found".      *)
(***************************************************************************)
C11_ErrorAtTopLevel ==
    \A s \in DOMAIN pc :
        (EndpointRan(s) /\ http[s].status_code = 404) =>
            "error" \in DOMAIN http[s].body

(***************************************************************************)
(* C11 amended: on model-not-found both endpoints answer 404 with a body   *)
(* whose only top-level key is "detail"; the object under "detail" has the *)
(* only key "error", which holds exactly message, type                     *)
(* "invalid_request_error", param "model" and code "model_not_found".      *)
(***************************************************************************)
C11_ErrorUnderDetail ==
    \A s \in DOMAIN pc :
        (EndpointRan(s) /\ http[s].status_code = 404) =>
            /\ request[s].api \in {"chat", "responses"}
            /\ DOMAIN http[s].body = {"detail"}
            /\ DOMAIN http[s].body.detail = {"error"}
            /\ DOMAIN http[s].body.detail.error = {"message", "type", "param", "code"}
            /\ http[s].body.detail.error.type = "invalid_request_error"
            /\ http[s].body.detail.error.param = "model"
            /\ http[s].body.detail.error.code = "model_not_found"
            /\ http[s].body.detail.error.message =
                   <<"The model '", request[s].model, "' does not exist">>

\* a chat request for a model missing from the list, answered 404 with the
\* error object under "detail"
C11_Witness ==
    \E s \in DOMAIN pc :
        /\ request[s].api = "chat"
        /\ http[s].status_code = 404
        /\ "detail" \in DOMAIN http[s].body
        /\ http[s].body.detail.error.param = "model"

\* the module global of a router, now and after the step
Global(r) == IF r = "chat" THEN chat_strategy ELSE resp_strategy
GlobalNext(r) == IF r = "chat" THEN chat_strategy' ELSE resp_strategy'

\* the router whose get_strategy a request resolves
RouterOf(req) == IF req.api = "chat" THEN "chat" ELSE "responses"

\* the step in which Depends(get_strategy) is resolved for request s
GetsStrategy(s) == pc[s] = "idle" /\ pc'[s] # "idle"

(***************************************************************************)
(* C12: set_strategy replaces the router's strategy reference in one       *)
(* step.  The reference changes only in the store step of a call and then  *)
(* to the strategy passed in; it always is a whole strategy object, and so *)
(* is every strategy a request obtained.  A get_strategy that runs during  *)
(* a call returns the reference of that moment, which is the previous      *)
(* strategy before the store and the new one after it; once a call has     *)
(* stored or returned, the reference is the strategy it passed, and every  *)
(* get_strategy that runs while no call is in progress returns the         *)
(* strategy of the last call (the import-time instance if there was none). *)
(***************************************************************************)
C12_AtomicSwap ==
    /\ [](\A r \in Routers : Global(r) \in StrategiesOf(r))
    /\ [](\A s \in DOMAIN pc :
              strategy[s] # Null => strategy[s] \in StrategiesOf(RouterOf(request[s])))
    /\ [](\A r \in Routers :
              (setter[r].pc \in {"return", "idle"} /\ setter[r].strategy # Null)
                  => Global(r) = setter[r].strategy)
    /\ [][\A r \in Routers :
              GlobalNext(r) # Global(r) =>
                  /\ setter[r].pc = "store"
                  /\ GlobalNext(r) = setter[r].strategy]_vars
    /\ [][\A s \in DOMAIN pc :
              GetsStrategy(s) =>
                  LET r == RouterOf(request'[s])
                      old == IF r = "chat" THEN "ChatMirrorStrategy"
                                           ELSE "ResponseMirrorStrategy"
                  IN  CASE setter[r].pc = "store" ->
                               strategy'[s] = Global(r)
                        [] setter[r].pc = "return" ->
                               strategy'[s] = setter[r].strategy
                        [] setter[r].strategy = Null ->
                               strategy'[s] = old
                        [] OTHER ->
                               strategy'[s] = setter[r].strategy]_vars

\* the chat router's strategy was swapped between two requests: the first
\* obtained the import-time instance, the second the instance passed to the
\* set_strategy call that has returned
C12_Witness ==
    /\ strategy["r1"] = "ChatMirrorStrategy"
    /\ strategy["r2"] = "ChatMirrorStrategy_2"
    /\ setter["chat"] = [pc |-> "idle", strategy |-> "ChatMirrorStrategy_2"]
    /\ chat_strategy = "ChatMirrorStrategy_2"

\* the state a request owns
PerRequest(s) ==
    <<pc[s], request[s], strategy[s], response_content[s], i[s], ids[s],
      sent[s], http[s]>>

\* the blocks a chat stream of `content` with identifier `id` consists of
ChatFrames(req, content, id, created) ==
    LET words == chat_words(content)
    IN  <<ChatCompletionChunk(id, created, req.model, "assistant", <<>>, Null)>>
        \o [k \in 1..Len(words) |->
               ChatCompletionChunk(id, created, req.model, Null,
                                   chat_delta(words, k - 1), Null)]
        \o <<ChatCompletionChunk(id, created, req.model, Null, None, "stop"),
             DoneMarker>>

\* the events a unified stream of `content` with these identifiers consists of
RespFrames(req, content, response_id, message_id) ==
    LET words == responses_words(content)
    IN  <<created_event(response_id, req.model),
          in_progress_event(response_id, req.model),
          item_added_event(message_id),
          content_part_added_event(message_id)>>
        \o [k \in 1..Len(words) |->
               delta_event(message_id, responses_delta(words, k - 1))]
        \o <<text_done_event(message_id, content),
             content_part_done_event(message_id, content),
             item_done_event(message_id, content),
             completed_event(response_id, message_id, req, content)>>

\* the sequence request s emits when it runs alone: a function of its own
\* body, the strategy it obtained and the identifiers it drew
Alone(s) ==
    LET content == generate_response(strategy[s], request[s])
    IN  IF request[s].api = "chat"
        THEN ChatFrames(request[s], content, ids[s].completion_id, ids[s].created)
        ELSE RespFrames(request[s], content, ids[s].response_id, ids[s].message_id)

Streams(s) == request[s].api # "none" /\ request[s].stream /\ Replied(s)
Sleeping(s) == pc[s] \in {"chat_sleep", "resp_sleep"}
\* the generator of s is at a point from which its next step yields a block
AboutToEmit(s) == pc[s] \in StreamPcs /\ ~Sleeping(s)
Emits(s) == StreamStep(s) /\ Len(sent'[s]) = Len(sent[s]) + 1

(***************************************************************************)
(* C13: with two streaming sessions interleaved in every possible way,     *)
(* whenever one session is suspended in its pacing delay and the other is  *)
(* about to emit a block, the other one's emitting step is enabled; the    *)
(* blocks a session has emitted are at every moment a prefix of, and at    *)
(* its end exactly, the sequence it emits alone; and a step changes the    *)
(* state of at most one request.                                           *)
(***************************************************************************)
C13_SessionsIndependent ==
    /\ [](\A s, t \in DOMAIN pc :
              (s # t /\ Sleeping(s) /\ AboutToEmit(t)) => ENABLED Emits(t))
    /\ [](\A s \in DOMAIN pc :
              Streams(s) =>
                  /\ sent[s] # <<>> => IsPrefix(sent[s], Alone(s))
                  /\ Finished(s) => sent[s] = Alone(s))
    /\ [][\A s, t \in DOMAIN pc :
              s # t => (PerRequest(s)' = PerRequest(s) \/ PerRequest(t)' = PerRequest(t))]_vars

\* a chat session and a unified session, both suspended in the pacing delay
\* after their first word, the chat session ahead by its role block only
C13_Witness ==
    /\ pc["r1"] = "chat_sleep" /\ Len(sent["r1"]) = 2
    /\ pc["r2"] = "resp_sleep" /\ Len(sent["r2"]) = 5
    /\ response_content["r1"] = <<"a", " ", "b">>
    /\ response_content["r2"] = <<"a", " ", "b">>

Closed(s) == pc[s] = "closed"
Closes(s) == pc[s] # "closed" /\ pc'[s] = "closed"

(***************************************************************************)
(* C14: a transport can close at every point of a stream, from before the  *)
(* first block to before the last one.  The closing step adds no block,    *)
(* changes no other request's state and leaves the configuration and both  *)
(* strategies as they are; a closed stream stays closed and its blocks     *)
(* stay what they were, a prefix of the full sequence of that stream; and  *)
(* in no step is an emitted block removed or replaced.                     *)
(***************************************************************************)
C14_CloseStopsStream ==
    /\ [](\A s \in DOMAIN pc : Closed(s) => IsPrefix(sent[s], Alone(s)))
    /\ [][\A s \in DOMAIN pc :
              /\ IsPrefix(sent[s], sent'[s])
              /\ Closed(s) => (Closed(s)' /\ PerRequest(s)' = PerRequest(s))
              /\ Closes(s) =>
                     /\ pc[s] \in StreamPcs
                     /\ sent'[s] = sent[s]
                     /\ \A t \in DOMAIN pc \ {s} : PerRequest(t)' = PerRequest(t)
                     /\ <<config, chat_strategy, resp_strategy>>'
                            = <<config, chat_strategy, resp_strategy>>]_vars

\* a chat stream closed in its pacing delay after the first of two words,
\* while the other session ran to the end of its unified stream
C14_Witness ==
    /\ Closed("r1") /\ request["r1"].api = "chat"
    /\ response_content["r1"] = <<"a", " ", "b">>
    /\ Len(sent["r1"]) = 2
    /\ Finished("r2") /\ request["r2"].api = "responses"
    /\ sent["r2"] = Alone("r2")

\* the last block of a finished stream is the terminal one of its protocol
EndsWithTerminal(s) ==
    /\ sent[s] # <<>>
    /\ LET last == sent[s][Len(sent[s])]
       IN  IF request[s].api = "chat"
           THEN last = DoneMarker
           ELSE "event" \in DOMAIN last /\ last.event = "response.completed"

(***************************************************************************)
(* C15: under the scheduling of the event loop, every streaming request    *)
(* that was accepted reaches the end of its generator unless its transport *)
(* closes; a generator that has ended emitted its terminal block last      *)
(* ([DONE] for chat, response.completed for the unified stream), after     *)
(* 3 + words blocks for chat and 8 + words events for the unified stream;  *)
(* and once ended, the request's state never changes again: no block       *)
(* follows the terminal one and the generator is not restarted.            *)
(***************************************************************************)
C15_StreamTerminates ==
    /\ \A s \in ConcRequests :
           (pc[s] \in StreamPcs) ~> (Finished(s) \/ Closed(s))
    /\ [](\A s \in DOMAIN pc :
              (Streams(s) /\ Finished(s)) =>
                  /\ EndsWithTerminal(s)
                  /\ Len(sent[s]) = WordCount(response_content[s])
                                    + (IF request[s].api = "chat" THEN 3 ELSE 8))
    /\ [][\A s \in DOMAIN pc :
              Finished(s) => PerRequest(s)' = PerRequest(s)]_vars

\* both streams ran to their terminal block, neither transport closed
C15_Witness ==
    /\ Finished("r1") /\ request["r1"].api = "chat"
    /\ sent["r1"][Len(sent["r1"])] = DoneMarker
    /\ Finished("r2") /\ request["r2"].api = "responses"
    /\ Len(sent["r2"]) = 10

(***************************************************************************)
(* C16: the body of a unified non-streaming answer has status "completed", *)
(* completed_at equal to created_at, an id with the prefix resp_ and       *)
(* exactly one output item; that item is a message with an id of prefix    *)
(* msg_, status "completed" and role "assistant", and its content is       *)
(* exactly one part, of type output_text, whose text is the reply text and *)
(* whose annotations list is empty.                                        *)
(***************************************************************************)
C16_UnifiedResponseShape ==
    \A s \in DOMAIN pc :
        RespResponded(s) =>
            LET body == http[s].body
            IN  /\ body.object = "response"
                /\ body.status = "completed"
                /\ body.created_at \in Times
                /\ body.completed_at = body.created_at
                /\ body.id.prefix = "resp_"
                /\ Len(body.output) = 1
                /\ body.output[1].type = "message"
                /\ body.output[1].id.prefix = "msg_"
                /\ body.output[1].status = "completed"
                /\ body.output[1].role = "assistant"
                /\ Len(body.output[1].content) = 1
                /\ body.output[1].content[1].type = "output_text"
                /\ body.output[1].content[1].text = response_content[s]
                /\ body.output[1].content[1].annotations = <<>>

\* a unified answer built at the later of the two clock readings, whose
\* reply is the text of a structured user item
C16_Witness ==
    \E s \in DOMAIN pc :
        /\ RespResponded(s)
        /\ http[s].body.created_at = 2
        /\ http[s].body.completed_at = 2
        /\ request[s].input.type = "list"
        /\ http[s].body.output[1].content[1].text = <<"a", " ", "b">>

\* the value the response is claimed to carry for an optional field: the
\* posted one, or the protocol default when the body has no such key
Echoed(body, field, default) == IF field \in DOMAIN body THEN body[field] ELSE default

(***************************************************************************)
(* C17 as stated: in a unified non-streaming answer temperature, top_p,    *)
(* truncation, max_output_tokens, instructions, metadata, tool_choice,     *)
(* tools and previous_response_id equal the values of the posted body, and *)
(* a field the body does not have takes its default: temperature 1.0,      *)
(* top_p 1.0, truncation "disabled", metadata {}, tool_choice "auto",      *)
(* tools [], and null for the others.  A metadata of null counts as        *)
(* absent.                                                                 *)
(***************************************************************************)
C17_EchoesOptionalFields ==
    \A s \in DOMAIN pc :
        (Finished(s) /\ http[s].status_code = 200) =>
            LET body == request[s]
                r == http[s].body
            IN  /\ r.temperature = Echoed(body, "temperature", "1.0")
                /\ r.top_p = Echoed(body, "top_p", "1.0")
                /\ r.truncation = Echoed(body, "truncation", "disabled")
                /\ r.max_output_tokens = Echoed(body, "max_output_tokens", Null)
                /\ r.instructions = Echoed(body, "instructions", None)
                /\ r.previous_response_id = Echoed(body, "previous_response_id", Null)
                /\ r.metadata = IF Echoed(body, "metadata", NoneDict) = NoneDict
                                THEN Dict(<<>>)
                                ELSE body.metadata
                /\ r.tool_choice = Echoed(body, "tool_choice", "auto")
                /\ r.tools = Echoed(body, "tools", <<>>)

\* the text of every turn of a chat request, in order; a turn without
\* content has the empty text
AllTurnTexts(messages) ==
    [k \in 1..Len(messages) |->
        IF messages[k].content = None THEN <<>> ELSE messages[k].content]

\* one choice with index 0, role assistant, the reply text and finish_reason
\* "stop"; the request's model; completion_tokens estimated from the reply
ChatCompletionShape(s) ==
    LET body == http[s].body
    IN  /\ body.object = "chat.completion"
        /\ body.id.prefix = "chatcmpl-"
        /\ body.model = request[s].model
        /\ Len(body.choices) = 1
        /\ body.choices[1].index = 0
        /\ body.choices[1].message.role = "assistant"
        /\ body.choices[1].message.content = response_content[s]
        /\ body.choices[1].finish_reason = "stop"
        /\ IsEstimate(body.usage.completion_tokens, response_content[s])

(***************************************************************************)
(* C18 as stated: a chat non-streaming answer has exactly one choice       *)
(* (index 0, role assistant, the reply text, finish_reason "stop"), echoes *)
(* the request's model, its completion_tokens is the estimate of the reply *)
(* text and its prompt_tokens is the estimate of the texts of all turns    *)
(* joined with single spaces.                                              *)
(***************************************************************************)
C18_PromptTokensAllTurns ==
    \A s \in DOMAIN pc :
        ChatResponded(s) =>
            /\ ChatCompletionShape(s)
            /\ IsEstimate(http[s].body.usage.prompt_tokens,
                          join(SP, AllTurnTexts(request[s].messages)))

(***************************************************************************)
(* C18 amended: the same, with prompt_tokens the estimate of the texts of  *)
(* the turns whose content is neither null nor empty, joined with single   *)
(* spaces: a turn without text adds no separator.                          *)
(***************************************************************************)
C18_PromptTokensNonEmptyTurns ==
    \A s \in DOMAIN pc :
        ChatResponded(s) =>
            /\ ChatCompletionShape(s)
            /\ IsEstimate(http[s].body.usage.prompt_tokens,
                          join(SP, TruthyContents(request[s].messages)))

\* a turn of seven characters followed by a turn with the empty text: one
\* prompt token, where the eight characters of "all turns joined" make two
C18_Witness ==
    \E s \in DOMAIN pc :
        /\ ChatResponded(s)
        /\ Len(request[s].messages) = 2
        /\ Len(request[s].messages[1].content) = 7
        /\ request[s].messages[2].content = <<>>
        /\ http[s].body.usage.prompt_tokens = 1
        /\ http[s].body.usage.completion_tokens = 1

\* the user items of a list input that have a text: a string content, or a
\* content list with at least one text part
UserItemsWithText(items) ==
    {k \in 1..Len(items) : items[k].role = "user" /\ ItemText(items[k]) # NoText}

(***************************************************************************)
(* C19: on a list input the reply of the response mirror strategy is the   *)
(* text of the last user item that has one, where the text of an item      *)
(* with a content list is its first text part in list order; image parts   *)
(* give no text, so a user item made of image parts only is passed over    *)
(* and the scan goes on with the items before it; when no user item has a  *)
(* text the reply is the sentinel.  The strategy returns a text in every   *)
(* case.                                                                   *)
(***************************************************************************)
C19_FirstTextPart ==
    \A s \in DOMAIN pc :
        (ListInput(s) /\ strategy[s] = "ResponseMirrorStrategy") =>
            LET items == request[s].input.value
                U == UserItemsWithText(items)
            IN  /\ response_content[s] # None
                /\ response_content[s] # NotFound
                /\ U = {} => response_content[s] = NoUserInput
                /\ U # {} =>
                       \E k \in U : /\ \A h \in U : h <= k
                                    /\ response_content[s] = ItemText(items[k])

\* a user item with an image part, a text part and a second text part,
\* followed by a user item made of one image part: the reply is the first
\* text part of the earlier item
C19_Witness ==
    \E s \in DOMAIN pc :
        /\ ListInput(s)
        /\ request[s].input.value =
               <<InputMessage("user", List(<<InputImageContent,
                                             InputTextContent(<<"a", " ", "b">>),
                                             InputTextContent(<<"b">>)>>)),
                 InputMessage("user", List(<<InputImageContent>>))>>
        /\ response_content[s] = <<"a", " ", "b">>

\* one text per input item that has one, in list order
RECURSIVE OneTextPerItem(_)
OneTextPerItem(items) ==
    IF items = <<>> THEN <<>>
    ELSE (IF ItemText(Head(items)) = NoText THEN <<>> ELSE <<ItemText(Head(items))>>)
         \o OneTextPerItem(Tail(items))

\* the usage of a unified answer, of either form
UnifiedUsage(s) ==
    IF request[s].stream THEN CompletedUsage(s) ELSE http[s].body.usage

(***************************************************************************)
(* C20 as stated: for a unified request with a list input, input_tokens is *)
(* the estimate of the text made of one text per input item (its string    *)
(* content, or the first text part of its content list; nothing for an     *)
(* item of image parts only) joined with single spaces, with the           *)
(* instructions and a space put before it when there are instructions.     *)
(***************************************************************************)
C20_InputTokensOneTextPerItem ==
    \A s \in DOMAIN pc :
        (ListInput(s) /\ Finished(s)) =>
            LET texts == join(SP, OneTextPerItem(request[s].input.value))
                text == IF Truthy(request[s].instructions)
                        THEN request[s].instructions \o SP \o texts
                        ELSE texts
            IN  IsEstimate(UnifiedUsage(s).input_tokens, text)

\* the identifiers request s has generated so far
IssuedIds(s) ==
    {ids[s].completion_id, ids[s].response_id, ids[s].message_id}
    \cup (IF Finished(s) /\ http[s].status_code = 200 /\ ~request[s].stream
          THEN IF request[s].api = "chat"
               THEN {http[s].body.id}
               ELSE {http[s].body.id, http[s].body.output[1].id}
          ELSE {})

(***************************************************************************)
(* C21 as stated: every generated identifier is one of the prefixes        *)
(* chatcmpl-, resp_, msg_ followed by a part that carries at least 96      *)
(* random bits.                                                            *)
(***************************************************************************)
C21_IdsCarry96RandomBits ==
    \A s \in DOMAIN pc :
        \A id \in IssuedIds(s) \ {NoId} :
            /\ id.prefix \in {"chatcmpl-", "resp_", "msg_"}
            /\ uuid4_random_bits(id.hexlen) >= 96


(***************************************************************************)
(* What a client can tell of a finished request once the generated         *)
(* identifiers and the timestamps are set aside.                           *)
(***************************************************************************)
\* the kind of each block of a stream: the event name of a unified event,
\* the role / finish_reason slot of a chat chunk, the literal of the marker
FrameKinds(frames) ==
    [k \in 1..Len(frames) |->
        IF "event" \in DOMAIN frames[k] THEN frames[k].event
        ELSE IF "literal" \in DOMAIN frames[k] THEN frames[k].literal
        ELSE IF frames[k].data.choices[1].finish_reason # Null THEN "finish"
        ELSE IF frames[k].data.choices[1].delta.role # Null THEN "role"
        ELSE "content"]

Deltas(s) ==
    IF request[s].api = "chat" THEN ChatDeltas(sent[s]) ELSE RespDeltas(sent[s])

\* the usage figures the answer to s carries (a chat stream carries none)
HasUsage(s) ==
    /\ Finished(s)
    /\ http[s].status_code = 200
    /\ ~(request[s].api = "chat" /\ request[s].stream)

UsageOf(s) == IF request[s].stream THEN CompletedUsage(s) ELSE http[s].body.usage

SameOutcome(s, t) ==
    /\ http[s].status_code = http[t].status_code
    /\ http[s].status_code = 404 => http[s].body = http[t].body
    /\ response_content[s] = response_content[t]
    /\ HasUsage(s) => UsageOf(s) = UsageOf(t)
    /\ FrameKinds(sent[s]) = FrameKinds(sent[t])
    /\ Deltas(s) = Deltas(t)

(***************************************************************************)
(* C22: two requests with equal bodies, handled under the same strategy    *)
(* and the same allow-list, whatever was handled before or in between,     *)
(* have the same lookup outcome, reply text, usage figures, frame kinds    *)
(* and delta strings; only identifiers and timestamps may differ.          *)
(***************************************************************************)
C22_Deterministic ==
    \A s, t \in DOMAIN pc :
        (/\ Finished(s) /\ Finished(t)
         /\ request[s] = request[t]
         /\ strategy[s] = strategy[t])
        => SameOutcome(s, t)

\* two finished streams of the same body whose identifiers differ
C22_Witness ==
    /\ Finished("r1") /\ Finished("r2")
    /\ request["r1"] = request["r2"]
    /\ request["r1"].stream
    /\ http["r1"].status_code = 200
    /\ ids["r1"] # ids["r2"]
    /\ Len(Deltas("r1")) = 2

\* two finished requests of the same body refused for their model
C22_Refused ==
    /\ Finished("r1") /\ Finished("r2")
    /\ request["r1"] = request["r2"]
    /\ http["r1"].status_code = 404


(***************************************************************************)
(* app.py: APIKeyMiddleware, the outermost middleware of the application   *)
(***************************************************************************)
Bearer == <<"B", "e", "a", "r", "e", "r", " ">>

\* str.startswith(prefix)
startswith(text, prefix) ==
    Len(prefix) <= Len(text) /\ SubSeq(text, 1, Len(prefix)) = prefix

\* mutant of removeprefix: the prefix is removed as often as it occurs
RECURSIVE removeprefix_repeated(_, _)
removeprefix_repeated(text, prefix) ==
    IF startswith(text, prefix)
    THEN removeprefix_repeated(SubSeq(text, Len(prefix) + 1, Len(text)), prefix)
    ELSE text

\* str.removeprefix(prefix): removes one leading occurrence, if there is one
removeprefix(text, prefix) ==
    IF startswith(text, prefix)
    THEN SubSeq(text, Len(prefix) + 1, Len(text))
    ELSE text

\* the values of "api-key" the application is configured with
ApiKeys == {<<>>, <<"k">>, <<"j">>}

\* Config dicts without and with an "api-key" entry
AuthConfigs ==
    {[models |-> <<>>]}
    \cup {[models |-> <<>>] @@ ("api-key" :> key) : key \in ApiKeys}

\* config.get("api-key")
config_api_key(cfg) == IF "api-key" \in DOMAIN cfg THEN cfg["api-key"] ELSE None

Methods == {"GET", "POST", "OPTIONS"}
Paths == {"/health", "/health/", "/v1/models", "/v1/chat/completions"}

\* request.headers.get("Authorization"): None when the header is missing
AuthorizationHeaders ==
    {None, <<>>, <<"k">>,
     Bearer, Bearer \o <<"k">>, Bearer \o <<"j">>, Bearer \o Bearer \o <<"k">>,
     <<"B", "a", "s", "i", "c", " ", "k">>,
     <<"b", "e", "a", "r", "e", "r", " ", "k">>}

HttpRequests ==
    [api : {"http"}, method : Methods, path : Paths,
     authorization : AuthorizationHeaders]

\* the JSONResponse the middleware answers with by itself
Unauthorized(message) ==
    [status_code |-> 401,
     body |-> [error |-> [message |-> message, type |-> "auth_error"]]]

\* what the rest of the application answers once call_next hands it the request
DownstreamResponses == {[status_code |-> 200], [status_code |-> 404]}

\* a request reaches the application
HttpRequest(s) ==
    /\ pc[s] = "idle"
    /\ \E req \in HttpRequests :
           request' = [request EXCEPT ![s] = req]
    /\ pc' = [pc EXCEPT ![s] = "dispatch"]
    /\ UNCHANGED <<config, environ, downstream, setter, chat_strategy, resp_strategy,
                   strategy, response_content, i, ids, sent, http>>

\* mutant of dispatch: the /health exemption is missing
dispatch_health_checked(s) ==
    /\ pc[s] = "dispatch"
    /\ LET method == request[s].method
           auth_header == request[s].authorization
           key == config_api_key(config)
       IN  IF \/ method = "OPTIONS"
              \/ ~Truthy(key)
              \/ /\ Truthy(auth_header)
                 /\ startswith(auth_header, Bearer)
                 /\ removeprefix(auth_header, Bearer) = key
           THEN /\ downstream' = [downstream EXCEPT ![s] = @ + 1]
                /\ pc' = [pc EXCEPT ![s] = "call_next"]
                /\ UNCHANGED http
           ELSE /\ http' = [http EXCEPT ![s] =
                       IF ~Truthy(auth_header) \/ ~startswith(auth_header, Bearer)
                       THEN Unauthorized("Missing API key")
                       ELSE Unauthorized("Invalid API key")]
                /\ pc' = [pc EXCEPT ![s] = "done"]
                /\ UNCHANGED downstream
    /\ UNCHANGED <<config, environ, setter, chat_strategy, resp_strategy, request,
                   strategy, response_content, i, ids, sent>>

\* APIKeyMiddleware.dispatch up to its return or its await of call_next
dispatch(s) ==
    /\ pc[s] = "dispatch"
    /\ LET method == request[s].method
           path == request[s].path
           auth_header == request[s].authorization
           key == config_api_key(config)
       IN  IF method = "OPTIONS"
           THEN /\ downstream' = [downstream EXCEPT ![s] = @ + 1]
                /\ pc' = [pc EXCEPT ![s] = "call_next"]
                /\ UNCHANGED http
           ELSE IF path = "/health"
           THEN /\ downstream' = [downstream EXCEPT ![s] = @ + 1]
                /\ pc' = [pc EXCEPT ![s] = "call_next"]
                /\ UNCHANGED http
           ELSE IF ~Truthy(key)
           THEN /\ downstream' = [downstream EXCEPT ![s] = @ + 1]
                /\ pc' = [pc EXCEPT ![s] = "call_next"]
                /\ UNCHANGED http
           ELSE IF ~Truthy(auth_header) \/ ~startswith(auth_header, Bearer)
           THEN /\ http' = [http EXCEPT ![s] = Unauthorized("Missing API key")]
                /\ pc' = [pc EXCEPT ![s] = "done"]
                /\ UNCHANGED downstream
           ELSE IF removeprefix(auth_header, Bearer) # key
           THEN /\ http' = [http EXCEPT ![s] = Unauthorized("Invalid API key")]
                /\ pc' = [pc EXCEPT ![s] = "done"]
                /\ UNCHANGED downstream
           ELSE /\ downstream' = [downstream EXCEPT ![s] = @ + 1]
                /\ pc' = [pc EXCEPT ![s] = "call_next"]
                /\ UNCHANGED http
    /\ UNCHANGED <<config, environ, setter, chat_strategy, resp_strategy, request,
                   strategy, response_content, i, ids, sent>>

\* `return await call_next(request)`: the downstream answer is passed on as is
call_next_return(s) ==
    /\ pc[s] = "call_next"
    /\ \E response \in DownstreamResponses :
           http' = [http EXCEPT ![s] = response]
    /\ pc' = [pc EXCEPT ![s] = "done"]
    /\ UNCHANGED <<config, environ, downstream, setter, chat_strategy, resp_strategy,
                   request, strategy, response_content, i, ids, sent>>

InitAuth ==
    /\ config \in AuthConfigs
    /\ Start(Requests)

NextAuth ==
    \/ \E s \in DOMAIN pc : HttpRequest(s)
    \/ \E s \in DOMAIN pc : dispatch(s)
    \/ \E s \in DOMAIN pc : call_next_return(s)

SpecAuth == InitAuth /\ [][NextAuth]_vars

\* the middleware has decided about the request of s
Dispatched(s) == pc[s] \in {"call_next", "done"}
KeyConfigured == Truthy(config_api_key(config))
Exempt(s) == request[s].method = "OPTIONS" \/ request[s].path = "/health"
Reached(s) == downstream[s] = 1
Rejected(s) ==
    /\ downstream[s] = 0
    /\ pc[s] = "done"
    /\ http[s].status_code = 401
    /\ http[s].body.error.type = "auth_error"

(***************************************************************************)
(* C23: with an API key configured, a request that is neither OPTIONS nor  *)
(* to /health is handed to the downstream handler exactly when its         *)
(* Authorization header is "Bearer " followed by the configured key; with  *)
(* a missing header, another scheme or another key it is answered 401 with *)
(* error type "auth_error" and the downstream handler is never invoked.    *)
(***************************************************************************)
C23_KeyRequired ==
    \A s \in DOMAIN pc :
        (Dispatched(s) /\ KeyConfigured /\ ~Exempt(s)) =>
            IF request[s].authorization = Bearer \o config_api_key(config)
            THEN Reached(s)
            ELSE Rejected(s)

\* a request whose header repeats the scheme before the right key is refused
C23_Witness ==
    /\ Dispatched("r1") /\ KeyConfigured /\ ~Exempt("r1")
    /\ request["r1"].authorization = Bearer \o Bearer \o config_api_key(config)
    /\ Rejected("r1")

(***************************************************************************)
(* C24: a request to /health is always handed to the downstream handler,   *)
(* whatever its Authorization header and the configured key are; with no   *)
(* key configured (absent or empty) every request to every path is.        *)
(***************************************************************************)
C24_HealthAndOpenAccess ==
    \A s \in DOMAIN pc :
        (Dispatched(s) /\ (request[s].path = "/health" \/ ~KeyConfigured)) =>
            /\ Reached(s)
            /\ pc[s] = "done" => http[s] \in DownstreamResponses

\* /health asked without a header while a key is configured
C24_Witness ==
    /\ pc["r1"] = "done" /\ KeyConfigured
    /\ request["r1"].path = "/health" /\ request["r1"].method = "GET"
    /\ request["r1"].authorization = None
    /\ Reached("r1")


(***************************************************************************)
(* config.py: load_config and _apply_env_overrides.  A config dict is a    *)
(* function from keys (texts) to values; a value is a scalar, a list of    *)
(* scalars or a nested dict.                                               *)
(***************************************************************************)
ENV_PREFIX == <<"L", "L", "M", "O", "C", "K", "_">>

Scalar(text) == [kind |-> "scalar", value |-> text]
ListOf(items) == [kind |-> "list", items |-> items]
DictOf(entries) == [kind |-> "dict", entries |-> entries]

\* str.upper() of one character
upper_char(c) == CASE c = "a" -> "A" [] c = "b" -> "B" [] OTHER -> c

\* mutant of env_name: the dashes of the key are kept
env_name_dashed(key) == [k \in 1..Len(key) |-> upper_char(key[k])]

\* key.upper().replace('-', '_')
env_name(key) ==
    [k \in 1..Len(key) |->
        IF upper_char(key[k]) = "-" THEN "_" ELSE upper_char(key[k])]

\* os.getenv(name)
getenv(name) == IF name \in DOMAIN environ THEN environ[name] ELSE None

\* the dict after _apply_env_overrides(config, prefix) has run on it
RECURSIVE apply_env_overrides(_, _)
apply_env_overrides(cfg, prefix) ==
    [key \in DOMAIN cfg |->
        LET value == cfg[key]
            env_key == prefix \o env_name(key)
            env_value == getenv(env_key)
        IN  IF env_value # None
            THEN IF value.kind = "list"
                 THEN ListOf(split(env_value, ";"))
                 ELSE IF value.kind = "dict"
                 THEN DictOf(apply_env_overrides(value.entries, env_key \o <<"_">>))
                 ELSE Scalar(env_value)
            ELSE IF value.kind = "dict"
            THEN DictOf(apply_env_overrides(value.entries, env_key \o <<"_">>))
            ELSE value]

KeyA == <<"a">>
KeyB == <<"b">>
KeyAB == <<"a", "-", "b">>
KeyA_B == <<"a", "_", "b">>

\* what yaml.safe_load(f) or {} returns for the config files of the model
YamlConfigs ==
    {<<>>,
     (KeyAB :> Scalar(<<"x">>))
         @@ (KeyA :> DictOf(KeyAB :> ListOf(<<<<"x">>>>)))
         @@ (KeyB :> ListOf(<<<<"x">>, <<"y">>>>)),
     (KeyA :> DictOf(KeyB :> Scalar(<<"x">>))) @@ (KeyA_B :> Scalar(None)),
     (KeyA :> DictOf(KeyA :> DictOf(KeyA :> Scalar(<<"x">>)))),
     (KeyB :> DictOf(KeyA :> Scalar(<<"x">>) @@ KeyB :> Scalar(<<"y">>)))
         @@ (KeyA :> ListOf(<<>>))}

EnvNames ==
    {ENV_PREFIX \o <<"A">>,
     ENV_PREFIX \o <<"A", "_", "B">>,
     ENV_PREFIX \o <<"A", "_", "A", "_", "B">>,
     ENV_PREFIX \o <<"B", "_", "A">>,
     ENV_PREFIX \o <<"A", "_", "A", "_", "A">>,
     ENV_PREFIX \o <<"a", "-", "b">>}

EnvValues == {<<>>, <<"z">>, <<"z", ";">>, <<"z", ";", ";", "y">>}

Environs == UNION {[names -> EnvValues] : names \in SUBSET EnvNames}

\* load_config: the YAML document is read and overridden in place
load_config ==
    /\ pc["loader"] = "load_config"
    /\ config' = apply_env_overrides(config, ENV_PREFIX)
    /\ pc' = [pc EXCEPT !["loader"] = "loaded"]
    /\ UNCHANGED <<environ, downstream, setter, chat_strategy, resp_strategy, request,
                   strategy, response_content, i, ids, sent, http>>

InitConfig ==
    /\ config \in YamlConfigs
    /\ environ \in Environs
    /\ pc = [s \in {"loader"} |-> "load_config"]
    /\ downstream = [s \in {"loader"} |-> 0]
    /\ setter = [r \in Routers |-> NoCall]
    /\ chat_strategy = "ChatMirrorStrategy"
    /\ resp_strategy = "ResponseMirrorStrategy"
    /\ request = [s \in {"loader"} |-> NoRequest]
    /\ strategy = [s \in {"loader"} |-> Null]
    /\ response_content = [s \in {"loader"} |-> None]
    /\ i = [s \in {"loader"} |-> 0]
    /\ ids = [s \in {"loader"} |-> NoIds]
    /\ sent = [s \in {"loader"} |-> <<>>]
    /\ http = [s \in {"loader"} |-> NoResponse]

NextConfig == load_config

SpecConfig == InitConfig /\ [][NextConfig]_vars

\* the key paths of a config dict: the keys from the top down to an entry
RECURSIVE KeyPaths(_)
KeyPaths(cfg) ==
    UNION {{<<key>>} \cup
           (IF cfg[key].kind = "dict"
            THEN {<<key>> \o path : path \in KeyPaths(cfg[key].entries)}
            ELSE {}) : key \in DOMAIN cfg}

RECURSIVE ValueAt(_, _)
ValueAt(cfg, path) ==
    IF Len(path) = 1 THEN cfg[path[1]]
    ELSE ValueAt(cfg[path[1]].entries, Tail(path))

\* prefix + upper-cased, dash-to-underscore key path joined by underscores
VariableOf(path) ==
    ENV_PREFIX \o
    join(<<"_">>, [k \in 1..Len(path) |->
                      [j \in 1..Len(path[k]) |->
                          CASE path[k][j] = "a" -> "A"
                            [] path[k][j] = "b" -> "B"
                            [] path[k][j] = "-" -> "_"
                            [] OTHER -> path[k][j]]])

\* the text cut at every ";"
RECURSIVE Segments(_)
Segments(text) ==
    IF \E k \in 1..Len(text) : text[k] = ";"
    THEN LET k == CHOOSE j \in 1..Len(text) :
                      text[j] = ";" /\ \A h \in (j + 1)..Len(text) : text[h] # ";"
         IN  Segments(SubSeq(text, 1, k - 1)) \o <<SubSeq(text, k + 1, Len(text))>>
    ELSE <<text>>

Overridden(before, after) ==
    /\ KeyPaths(after) = KeyPaths(before)
    /\ \A path \in KeyPaths(before) :
           LET old == ValueAt(before, path)
               new == ValueAt(after, path)
               name == VariableOf(path)
           IN  /\ new.kind = old.kind
               /\ (old.kind = "scalar" /\ name \in DOMAIN environ)
                      => new.value = environ[name]
               /\ (old.kind = "list" /\ name \in DOMAIN environ)
                      => new.items = Segments(environ[name])
               /\ (old.kind # "dict" /\ name \notin DOMAIN environ) => new = old

(***************************************************************************)
(* C25: load_config leaves the key paths of the YAML document as they are; *)
(* a scalar whose variable (prefix, then the upper-cased key path with     *)
(* dashes written as underscores, joined by underscores) is set becomes    *)
(* the variable's string, the empty string included; a list whose variable *)
(* is set becomes the variable cut at every ";", empty segments kept; a    *)
(* value whose variable is not set stays as the YAML document has it.      *)
(***************************************************************************)
C25_EnvOverrides ==
    [][load_config => Overridden(config, config')]_vars

\* a loaded config whose nested list came from a variable with an empty segment
C25_Witness ==
    /\ pc["loader"] = "loaded"
    /\ ENV_PREFIX \o <<"A", "_", "A", "_", "B">> \in DOMAIN environ
    /\ KeyA \in DOMAIN config
    /\ config[KeyA].kind = "dict"
    /\ KeyAB \in DOMAIN config[KeyA].entries
    /\ config[KeyA].entries[KeyAB] = ListOf(<<<<"z">>, <<>>, <<"y">>>>)
    /\ config[KeyAB] = Scalar(<<"x">>)


(***************************************************************************)
(* routers/models.py: GET /v1/models and GET /v1/models/{model_id}         *)
(***************************************************************************)
ConfiguredModels ==
    [id : {"m1", "m2"}, created : {1, 2}, owned_by : {"org"}]

\* Config dicts without a "models" key and with up to two entries, ids repeated
ModelsConfigs ==
    {[cors |-> <<>>]}
    \cup {[models |-> l] : l \in SeqsUpTo(ConfiguredModels, MaxModels)}

ModelsRequests ==
    {[api |-> "models", op |-> "list", model_id |-> Null]}
    \cup [api : {"models"}, op : {"retrieve"}, model_id : {"m1", "m2", "m3"}]

\* config.get("models", [])
get_models_config(cfg) == IF "models" \in DOMAIN cfg THEN cfg.models ELSE <<>>

\* mutant of Model: the owner is a fixed name
Model_fixed_owner(m) ==
    [id |-> m.id, object |-> "model", created |-> m.created, owned_by |-> "llmock"]

\* Model(id=m["id"], created=m["created"], owned_by=m["owned_by"])
Model(m) ==
    [id |-> m.id, object |-> "model", created |-> m.created, owned_by |-> m.owned_by]

ModelList(data) == [object |-> "list", data |-> data]

\* a request to one of the two routes arrives
ModelsRequest(s) ==
    /\ pc[s] = "idle"
    /\ \E req \in ModelsRequests :
           /\ request' = [request EXCEPT ![s] = req]
           /\ pc' = [pc EXCEPT ![s] = req.op]
    /\ UNCHANGED <<config, environ, downstream, setter, chat_strategy, resp_strategy,
                   strategy, response_content, i, ids, sent, http>>

list_models(s) ==
    /\ pc[s] = "list"
    /\ LET models_config == get_models_config(config)
           models == [k \in 1..Len(models_config) |-> Model(models_config[k])]
       IN  http' = [http EXCEPT ![s] = JSONResponse(ModelList(models))]
    /\ pc' = [pc EXCEPT ![s] = "done"]
    /\ UNCHANGED <<config, environ, downstream, setter, chat_strategy, resp_strategy,
                   request, strategy, response_content, i, ids, sent>>

\* mutant of retrieve_model: an empty configuration knows every model
retrieve_model_open(s) ==
    /\ pc[s] = "retrieve"
    /\ LET models_config == get_models_config(config)
           model_id == request[s].model_id
           hits == {k \in 1..Len(models_config) : models_config[k].id = model_id}
       IN  http' = [http EXCEPT ![s] =
               IF hits # {}
               THEN JSONResponse(Model(models_config[CHOOSE k \in hits :
                                                         \A h \in hits : k <= h]))
               ELSE IF models_config = <<>>
               THEN JSONResponse(Model([id |-> model_id, created |-> 0,
                                        owned_by |-> "org"]))
               ELSE HTTPExceptionResponse(
                        [status_code |-> 404,
                         detail |-> [error |->
                             [message |-> <<"The model '", model_id, "' does not exist">>,
                              type |-> "invalid_request_error",
                              param |-> "model",
                              code |-> "model_not_found"]]])]
    /\ pc' = [pc EXCEPT ![s] = "done"]
    /\ UNCHANGED <<config, environ, downstream, setter, chat_strategy, resp_strategy,
                   request, strategy, response_content, i, ids, sent>>

\* the loop returns at the first entry with the id; the raise follows the loop
retrieve_model(s) ==
    /\ pc[s] = "retrieve"
    /\ LET models_config == get_models_config(config)
           model_id == request[s].model_id
           hits == {k \in 1..Len(models_config) : models_config[k].id = model_id}
       IN  http' = [http EXCEPT ![s] =
               IF hits # {}
               THEN JSONResponse(Model(models_config[CHOOSE k \in hits :
                                                         \A h \in hits : k <= h]))
               ELSE HTTPExceptionResponse(
                        [status_code |-> 404,
                         detail |-> [error |->
                             [message |-> <<"The model '", model_id, "' does not exist">>,
                              type |-> "invalid_request_error",
                              param |-> "model",
                              code |-> "model_not_found"]]])]
    /\ pc' = [pc EXCEPT ![s] = "done"]
    /\ UNCHANGED <<config, environ, downstream, setter, chat_strategy, resp_strategy,
                   request, strategy, response_content, i, ids, sent>>

InitModels ==
    /\ config \in ModelsConfigs
    /\ Start(Requests)

NextModels ==
    \/ \E s \in DOMAIN pc : ModelsRequest(s)
    \/ \E s \in DOMAIN pc : list_models(s)
    \/ \E s \in DOMAIN pc : retrieve_model(s)

SpecModels == InitModels /\ [][NextModels]_vars

Configured == IF "models" \in DOMAIN config THEN config.models ELSE <<>>
Listed(s) == Finished(s) /\ request[s].op = "list"
Retrieved(s) == Finished(s) /\ request[s].op = "retrieve"

(***************************************************************************)
(* C26: the list answer holds one entry per configured model, in the       *)
(* configured order, each with the configured id, created and owned_by     *)
(* and the object "model"; a retrieval answers with a configured entry of  *)
(* the requested id, and with 404 and the code "model_not_found" when no   *)
(* entry has that id, an empty configuration included.                     *)
(***************************************************************************)
C26_ModelsEndpoints ==
    \A s \in DOMAIN pc :
        /\ Listed(s) =>
               /\ http[s].status_code = 200
               /\ Len(http[s].body.data) = Len(Configured)
               /\ \A k \in 1..Len(Configured) :
                      /\ http[s].body.data[k].id = Configured[k].id
                      /\ http[s].body.data[k].created = Configured[k].created
                      /\ http[s].body.data[k].owned_by = Configured[k].owned_by
                      /\ http[s].body.data[k].object = "model"
        /\ Retrieved(s) =>
               IF \E k \in 1..Len(Configured) : Configured[k].id = request[s].model_id
               THEN /\ http[s].status_code = 200
                    /\ http[s].body.id = request[s].model_id
                    /\ http[s].body.object = "model"
                    /\ \E k \in 1..Len(Configured) :
                           /\ Configured[k].id = http[s].body.id
                           /\ Configured[k].created = http[s].body.created
                           /\ Configured[k].owned_by = http[s].body.owned_by
               ELSE /\ http[s].status_code = 404
                    /\ http[s].body.detail.error.code = "model_not_found"

\* a retrieval refused although nothing is configured
C26_Witness ==
    /\ Retrieved("r1")
    /\ Configured = <<>>
    /\ http["r1"].status_code = 404

\* a list answer with two models of different creation times
C26_Listed ==
    /\ Listed("r1")
    /\ Len(http["r1"].body.data) = 2
    /\ http["r1"].body.data[1].created # http["r1"].body.data[2].created


\* the strategy has been asked for the reply of s
StrategyInvoked(s) == response_content[s] # None
\* the non-streaming builder has produced the response object of s
Built(s) == "body" \in DOMAIN http[s] /\ http[s].status_code = 200
\* the streaming sequencer of s has been handed to the transport
Sequenced(s) == http[s] = StreamingResponse
Refused(s) == EndpointRan(s) /\ http[s].status_code = 404

(***************************************************************************)
(* C27: within one request the model lookup comes first, the strategy      *)
(* second, the response last.  A refused request has no reply, no response *)
(* object, no identifier and no frame; an accepted one has its reply, set  *)
(* once by the endpoint step and never again, together with either the     *)
(* built response object (stream flag off, no frame ever) or the stream    *)
(* (stream flag on, no response object), never both; and nothing of this   *)
(* exists before the endpoint has run.                                     *)
(***************************************************************************)
C27_LookupStrategyResponse ==
    /\ [](\A s \in DOMAIN pc :
            /\ ~EndpointRan(s) =>
                   /\ ~StrategyInvoked(s)
                   /\ http[s] = NoResponse
                   /\ sent[s] = <<>>
            /\ Refused(s) =>
                   /\ ~StrategyInvoked(s)
                   /\ ~Built(s) /\ ~Sequenced(s)
                   /\ sent[s] = <<>> /\ ids[s] = NoIds
                   /\ Finished(s)
            /\ Replied(s) =>
                   /\ StrategyInvoked(s)
                   /\ Built(s) # Sequenced(s)
                   /\ Sequenced(s) = request[s].stream
                   /\ Built(s) => (sent[s] = <<>> /\ ids[s] = NoIds))
    /\ [][\A s \in DOMAIN pc :
              /\ response_content'[s] # response_content[s] =>
                     /\ ~EndpointRan(s) /\ EndpointRan(s)'
                     /\ ~StrategyInvoked(s)
              /\ http'[s] # http[s] => (~EndpointRan(s) /\ EndpointRan(s)')
              /\ sent'[s] # sent[s] => (Sequenced(s) /\ StrategyInvoked(s))]_vars

\* a refused request at its end
C27_Witness ==
    /\ Refused("r1") /\ Finished("r1")
    /\ request["r1"].api = "chat"
    /\ ~StrategyInvoked("r1")

\* a stream that has begun to yield
C27_Streaming ==
    /\ Sequenced("r1") /\ Len(sent["r1"]) = 2


\* the chunks of a chat stream, the [DONE] marker left out
Chunks(frames) == {k \in 1..Len(frames) : "data" \in DOMAIN frames[k]}
ChunkIdentity(f) == <<f.data.id, f.data.created, f.data.model>>

\* the response id an event of a unified stream carries, where it carries one
ResponseIdsIn(frames) ==
    {frames[k].data.response.id :
        k \in {j \in 1..Len(frames) : "response" \in DOMAIN frames[j].data}}

\* the message id an event of a unified stream names, where it names one
MessageIdsIn(frames) ==
    {frames[k].data.item_id :
        k \in {j \in 1..Len(frames) : "item_id" \in DOMAIN frames[j].data}}
    \cup {frames[k].data.item.id :
        k \in {j \in 1..Len(frames) : "item" \in DOMAIN frames[j].data}}
    \cup {frames[k].data.response.output[1].id :
        k \in {j \in 1..Len(frames) : frames[j].event = "response.completed"}}

IdentityConstant(s) ==
    IF request[s].api = "chat"
    THEN \A k \in Chunks(sent[s]) :
             /\ ChunkIdentity(sent[s][k]) = ChunkIdentity(sent[s][1])
             /\ sent[s][k].data.model = request[s].model
    ELSE /\ Cardinality(ResponseIdsIn(sent[s])) <= 1
         /\ Cardinality(MessageIdsIn(sent[s])) <= 1
         /\ ResponseIdsIn(sent[s]) \cap MessageIdsIn(sent[s]) = {}

\* every identifier that occurs in the frames of s
StreamIds(s) ==
    IF request[s].api = "chat"
    THEN {sent[s][k].data.id : k \in Chunks(sent[s])}
    ELSE ResponseIdsIn(sent[s]) \cup MessageIdsIn(sent[s])

InFlight(s) == Streams(s) /\ pc[s] \in StreamPcs

LiveStrategiesOf(r) ==
    IF r = "chat" THEN {"ChatMirrorStrategy", "ChatFixedStrategy"}
    ELSE {"ResponseMirrorStrategy", "ResponseFixedStrategy"}

LiveChatBodies ==
    [api : {"chat"}, model : {"gpt-4"},
     messages : {<<[role |-> "user", content |-> <<"a", " ", "b">>]>>},
     stream : BOOLEAN]

LiveResponseBodies ==
    [api : {"responses"}, model : {"gpt-4"}, input : {Str(<<"a", " ", "b">>)},
     instructions : {None}, stream : BOOLEAN]

LiveChatRequest(s) == ChatRequestFrom(s, LiveChatBodies)
LiveResponsesRequest(s) == ResponsesRequestFrom(s, LiveResponseBodies)
live_set_strategy_call(r) == set_strategy_call_with(r, LiveStrategiesOf(r))

InitLive ==
    /\ config \in Configs
    /\ Start(Requests)

NextLive ==
    \/ \E r \in Routers : live_set_strategy_call(r)
    \/ \E r \in Routers : set_strategy_store(r)
    \/ \E r \in Routers : set_strategy_return(r)
    \/ \E s \in DOMAIN pc : LiveChatRequest(s)
    \/ \E s \in DOMAIN pc : create_chat_completion(s)
    \/ \E s \in DOMAIN pc : chat_first_chunk(s)
    \/ \E s \in DOMAIN pc : chat_word_chunk(s)
    \/ \E s \in DOMAIN pc : chat_sleep(s)
    \/ \E s \in DOMAIN pc : chat_final_chunk(s)
    \/ \E s \in DOMAIN pc : chat_done_marker(s)
    \/ \E s \in DOMAIN pc : LiveResponsesRequest(s)
    \/ \E s \in DOMAIN pc : create_response_endpoint(s)
    \/ \E s \in DOMAIN pc : resp_created(s)
    \/ \E s \in DOMAIN pc : resp_in_progress(s)
    \/ \E s \in DOMAIN pc : resp_item_added(s)
    \/ \E s \in DOMAIN pc : resp_content_part_added(s)
    \/ \E s \in DOMAIN pc : resp_delta(s)
    \/ \E s \in DOMAIN pc : resp_sleep(s)
    \/ \E s \in DOMAIN pc : resp_text_done(s)
    \/ \E s \in DOMAIN pc : resp_content_part_done(s)
    \/ \E s \in DOMAIN pc : resp_item_done(s)
    \/ \E s \in DOMAIN pc : resp_completed(s)

SpecLive == InitLive /\ [][NextLive]_vars

\* a step of a set_strategy call on router r
SetterStep(r) == setter'[r] # setter[r]

(***************************************************************************)
(* C29: the reply of a stream is the one the strategy resolved at the      *)
(* request's arrival gave when the endpoint ran, and every frame is built  *)
(* from it.  A set_strategy step at any point of the stream changes        *)
(* nothing of the request (strategy, reply, frames sent, position); a      *)
(* request takes the strategy its router holds at the step it arrives in;  *)
(* and a set_strategy step on one router leaves the other router's         *)
(* strategy as it is.                                                      *)
(***************************************************************************)
C29_ReplyFixedBeforeFrames ==
    /\ [](\A s \in DOMAIN pc :
            Replied(s) =>
                /\ response_content[s] = generate_response(strategy[s], request[s])
                /\ request[s].stream =>
                       /\ IsPrefix(sent[s], Alone(s))
                       /\ Finished(s) => sent[s] = Alone(s))
    /\ [][\A s \in DOMAIN pc :
              /\ EndpointRan(s) =>
                     /\ response_content'[s] = response_content[s]
                     /\ strategy'[s] = strategy[s]
              /\ GetsStrategy(s) => strategy'[s] = Global(RouterOf(request'[s]))]_vars
    /\ [][\A r \in Routers :
              SetterStep(r) =>
                  /\ \A s \in DOMAIN pc : PerRequest(s)' = PerRequest(s)
                  /\ \A q \in Routers \ {r} : GlobalNext(q) = Global(q)]_vars

\* a unified stream has ended with the mirror's reply in its last text
\* events although the router holds the fixed-reply strategy by now
C29_Witness ==
    /\ Finished("r1") /\ RespStreaming("r1")
    /\ strategy["r1"] = "ResponseMirrorStrategy"
    /\ resp_strategy = "ResponseFixedStrategy"
    /\ setter["responses"].pc = "idle"
    /\ response_content["r1"] # FixedReply
    /\ sent["r1"][Len(sent["r1"])].data.response.output[1].content[1].text
           = response_content["r1"]


\* the frames of s of one event kind
FramesOf(s, kind) ==
    {sent[s][k].data : k \in {j \in 1..Len(sent[s]) : sent[s][j].event = kind}}

\* what a non-streaming answer to the request of s would carry, whatever
\* identifiers and clock reading it is built with
NonStreamingUnified(s) ==
    {create_response(ResponseCreateRequest_validate(request[s]),
                     generate_response(strategy[s], request[s]), uuid1, uuid2, now) :
        uuid1 \in UUIDs, uuid2 \in UUIDs, now \in Times}

NonStreamingChat(s) ==
    {create_non_streaming_response(request[s],
                                   generate_response(strategy[s], request[s]), uuid) :
        uuid \in UUIDs}

(***************************************************************************)
(* C30: the response object of the final response.completed event of a     *)
(* unified stream has the status, model, output text and usage that        *)
(* create_response gives for the same request and strategy; the text of    *)
(* output_text.done, content_part.done and output_item.done is that same   *)
(* reply; and the deltas of a chat stream, concatenated, are the content   *)
(* of the choice of the non-streaming chat answer.                         *)
(***************************************************************************)
C30_StreamEqualsNonStreaming ==
    \A s \in DOMAIN pc :
        /\ RespCompleted(s) =>
               \A whole \in NonStreamingUnified(s) :
                   LET final == sent[s][Len(sent[s])].data.response
                       reply == whole.output[1].content[1].text
                   IN  /\ sent[s][Len(sent[s])].event = "response.completed"
                       /\ final.status = whole.status
                       /\ final.model = whole.model
                       /\ Len(final.output) = Len(whole.output)
                       /\ final.output[1].content = whole.output[1].content
                       /\ final.usage.input_tokens = whole.usage.input_tokens
                       /\ final.usage.output_tokens = whole.usage.output_tokens
                       /\ final.usage.total_tokens = whole.usage.total_tokens
                       /\ \A d \in FramesOf(s, "response.output_text.done") :
                              d.text = reply
                       /\ \A d \in FramesOf(s, "response.content_part.done") :
                              d.part.text = reply
                       /\ \A d \in FramesOf(s, "response.output_item.done") :
                              d.item.content[1].text = reply
                       /\ Concat(RespDeltas(sent[s])) = reply
        /\ (ChatStreaming(s) /\ Finished(s)) =>
               \A whole \in NonStreamingChat(s) :
                   Concat(ChatDeltas(sent[s])) = whole.choices[1].message.content

\* a finished unified stream of a request with instructions whose reply has
\* several words and whose usage counts input and output tokens
C30_Witness ==
    /\ RespCompleted("r1")
    /\ Truthy(request["r1"].instructions)
    /\ Len(RespDeltas(sent["r1"])) >= 2
    /\ CompletedUsage("r1").input_tokens >= 1
    /\ Cardinality(FramesOf("r1", "response.output_item.done")) = 1

====
